---- MODULE Spec2Model ----
(***************************************************************************)
(* CareGaps tool-calling agent (src/CareGapsAgents/agent.py, the primary   *)
(* variant, and the agent cell of src/CareGapsAgents/caregaps_driver.py,   *)
(* the earlier variant): the input guard, the function executor, the       *)
(* completion stream adapter and the orchestration loop.                   *)
(***************************************************************************)
EXTENDS Integers, Sequences, FiniteSets, TLC

VARIABLES
    variant,            \* which agent serves the request: "primary" | "earlier"
    pc,                 \* position of the request, see PcValues
    request,            \* the caller's request: its input list of messages
    messages,           \* the message list the loop operates on
    iteration,          \* loop iterations started so far (for iteration in range(max_iter))
    events,             \* stream events handed to the caller, in emission order
    errlog,             \* calls of AgentLogger.log_error, in order, each delivered or not
    functions_called,   \* self._functions_called
    llm_calls,          \* outcome of every call of call_llm of this request, in order
    exec_calls,         \* every invocation of a tool's exec_fn of this request, in order
    last_call,          \* what the last handle_tool_call did (observation of one call)
    user_input,         \* the text given to the input guard
    verdict,            \* what is_safe_input returned for user_input
    querylog,           \* calls of AgentLogger.log_query, in order
    response,           \* what predict returned to the caller
    tools_dict,         \* self._tools_dict: the names of the registered tools
    peers               \* the requests served concurrently by one agent, see SpecConc

vars == <<variant, pc, request, messages, iteration, events, errlog,
          functions_called, llm_calls, exec_calls, last_call, user_input, verdict,
          querylog, response, tools_dict, peers>>

-----------------------------------------------------------------------------
(* Program constants.                                                      *)

MaxIterPrimary == 10
MaxIterEarlier == 5
MaxInputLen == 1000
HistoryThreshold == 7
HistoryWindow == 6

(* Bounds of the model.                                                     *)

\* lexemes in a text given to the guard
MaxTokens == 5
\* tool-call requests the model may issue in one request
MaxToolCalls == 1
\* pieces in a tool name given to the name repair
MaxPieces == 4
\* messages in a list given to the history truncation
MaxHistory == 8
\* records in a list a tool returns to the result formatter
MaxRows == 2
\* tool-call requests of the model in a request that asks again after a failure
MaxAsks == 2
\* lexemes in a user text at the entry of a request
MaxEntryTokens == 3
\* requests one agent serves one after the other
MaxServed == 2
\* turns (a user message, an answer, a tool call with its result) in a history
MaxTurns == 7

-----------------------------------------------------------------------------
(* Texts.  A user text is a sequence of lexemes, each standing for a fixed *)
(* character string.  "RUN" is a run of MaxInputLen - 3 letters x, "BEL"   *)
(* the control character 0x07, "NL" a newline.  No dangerous keyword       *)
(* occurs in a concatenation of lexemes except as a whole lexeme, so a     *)
(* regular expression matches the characters iff it matches the lexemes.   *)

Keywords == {"drop", "table", "delete", "from", "update", "set", "union", "select"}

Lexemes == Keywords \cup {"DROP", "Select", ";", " ", "NL", "--", "/*", "*/", "x", "RUN", "BEL"}

TokLen(t) ==
    CASE t \in {";", " ", "NL", "x", "BEL"} -> 1
      [] t \in {"--", "/*", "*/"} -> 2
      [] t = "set" -> 3
      [] t \in {"drop", "DROP", "from"} -> 4
      [] t \in {"table", "union"} -> 5
      [] t \in {"delete", "update", "select", "Select"} -> 6
      [] t = "RUN" -> MaxInputLen - 3
      [] OTHER -> 1

RECURSIVE StrLen(_)
StrLen(s) == IF s = <<>> THEN 0 ELSE TokLen(Head(s)) + StrLen(Tail(s))

\* re.IGNORECASE: letters compare by their lower-case form
Lower(t) == CASE t = "DROP" -> "drop" [] t = "Select" -> "select" [] OTHER -> t

LowerSeq(s) == [i \in 1..Len(s) |-> Lower(s[i])]

\* \s
IsSpace(t) == t \in {" ", "NL"}

\* . without re.DOTALL: any character but a newline
IsDot(t) == t # "NL"

At(s, i) == IF i \in 1..Len(s) THEN s[i] ELSE "EOS"

\* the first position from i on that holds no whitespace: where \s* stops
RECURSIVE SkipSpace(_, _)
SkipSpace(s, i) == IF i \in 1..Len(s) /\ IsSpace(s[i]) THEN SkipSpace(s, i + 1) ELSE i

\* ;\s*<kw1>\s+<kw2> matched from position i (the patterns with drop table, delete from)
MatchStmtAt(s, i, kw1, kw2) ==
    /\ At(s, i) = ";"
    /\ LET j == SkipSpace(s, i + 1) IN
       /\ At(s, j) = kw1
       /\ IsSpace(At(s, j + 1))
       /\ At(s, SkipSpace(s, j + 1)) = kw2

\* ;\s*update\s+.*\s+set matched from position i
MatchUpdateAt(s, i) ==
    /\ At(s, i) = ";"
    /\ LET j == SkipSpace(s, i + 1) IN
       /\ At(s, j) = "update"
       /\ \E a \in (j + 1)..Len(s) : \E b \in a..Len(s) : \E c \in (b + 1)..Len(s) :
            /\ \A k \in (j + 1)..a : IsSpace(s[k])
            /\ \A k \in (a + 1)..b : IsDot(s[k])
            /\ \A k \in (b + 1)..c : IsSpace(s[k])
            /\ At(s, c + 1) = "set"

\* union\s+select matched from position i
MatchUnionAt(s, i) ==
    /\ At(s, i) = "union"
    /\ IsSpace(At(s, i + 1))
    /\ At(s, SkipSpace(s, i + 1)) = "select"

\* --\s*$ matched from position i ($: the end, or just before a final newline,
\* which \s* takes as well)
MatchCommentAt(s, i) ==
    /\ At(s, i) = "--"
    /\ \A k \in (i + 1)..Len(s) : IsSpace(s[k])

\* /\*.*\*/ matched from position i
MatchBlockAt(s, i) ==
    /\ At(s, i) = "/*"
    /\ \E j \in (i + 1)..Len(s) :
         /\ s[j] = "*/"
         /\ \A k \in (i + 1)..(j - 1) : IsDot(s[k])

DANGEROUS_PATTERNS == 1..6

\* re.search(pattern, s): the pattern matches somewhere in s, case as written
Search(p, s) ==
    \E i \in 1..Len(s) :
        CASE p = 1 -> MatchStmtAt(s, i, "drop", "table")
          [] p = 2 -> MatchStmtAt(s, i, "delete", "from")
          [] p = 3 -> MatchUpdateAt(s, i)
          [] p = 4 -> MatchUnionAt(s, i)
          [] p = 5 -> MatchCommentAt(s, i)
          [] p = 6 -> MatchBlockAt(s, i)

\* re.search(pattern, user_input, re.IGNORECASE)
SearchIgnoreCase(p, s) == Search(p, LowerSeq(s))

ReasonEmpty == "Empty input"
ReasonTooLong == "Input too long (max 1000 characters)"
ReasonDangerous == "Potentially dangerous input detected"
ReasonValid == "Valid"

is_safe_input_patterns_first(s) ==
    IF s = <<>> THEN <<FALSE, ReasonEmpty>>
    ELSE IF \E p \in DANGEROUS_PATTERNS : SearchIgnoreCase(p, s)
         THEN <<FALSE, ReasonDangerous>>
    ELSE IF StrLen(s) > MaxInputLen THEN <<FALSE, ReasonTooLong>>
    ELSE <<TRUE, ReasonValid>>

is_safe_input(s) ==
    IF s = <<>> THEN <<FALSE, ReasonEmpty>>
    ELSE IF StrLen(s) > MaxInputLen THEN <<FALSE, ReasonTooLong>>
    ELSE IF \E p \in DANGEROUS_PATTERNS : SearchIgnoreCase(p, s)
         THEN <<FALSE, ReasonDangerous>>
    ELSE <<TRUE, ReasonValid>>

\* re.sub(r'[\x00-\x1f\x7f-\x9f]', '', s): the newline is a control character too
StripControl(s) == SelectSeq(s, LAMBDA t : t \notin {"BEL", "NL"})

RECURSIVE LStrip(_)
LStrip(s) == IF s # <<>> /\ IsSpace(Head(s)) THEN LStrip(Tail(s)) ELSE s

RECURSIVE RStrip(_)
RStrip(s) ==
    IF s # <<>> /\ IsSpace(s[Len(s)]) THEN RStrip(SubSeq(s, 1, Len(s) - 1)) ELSE s

sanitize_input(s) == RStrip(LStrip(StripControl(s)))

-----------------------------------------------------------------------------
(* Messages, items and events.  Every message has the same fields; a text  *)
(* is a sequence of strings, a tool name a sequence of name pieces.        *)

NoArgs == [json |-> "none", map |-> <<>>]

Msg(role, type, call_id, name, arguments, text) ==
    [role |-> role, type |-> type, call_id |-> call_id, name |-> name,
     arguments |-> arguments, text |-> text]

SYSTEM_PROMPT == <<"SYSTEM_PROMPT">>

SystemMsg == Msg("system", "none", 0, <<>>, NoArgs, SYSTEM_PROMPT)

UserMsg(text) == Msg("user", "none", 0, <<>>, NoArgs, text)

\* create_text_output_item
create_text_output_item(text) == Msg("assistant", "message", 0, <<>>, NoArgs, text)

\* create_function_call_item
create_function_call_item(call_id, name, arguments) ==
    Msg("none", "function_call", call_id, name, arguments, <<>>)

\* mutant: the tool-result item does not carry the call's correlation id
create_function_call_output_item_no_id(call_id, output) ==
    Msg("none", "function_call_output", 0, <<>>, NoArgs, output)

\* create_function_call_output_item
\* mutant: the handler's result is appended as one more tool-call request
create_function_call_output_item_as_call(call_id, output) ==
    Msg("none", "function_call", call_id, <<>>, NoArgs, output)

create_function_call_output_item(call_id, output) ==
    Msg("none", "function_call_output", call_id, <<>>, NoArgs, output)

DoneEvent(item) == [type |-> "response.output_item.done", item |-> item]

DeltaEvent(text) ==
    [type |-> "response.output_text.delta",
     item |-> Msg("none", "delta", 0, <<>>, NoArgs, text)]

LLM_APOLOGY ==
    <<"I'm sorry, I encountered an error processing your request. Please try again.">>

MAX_ITER_APOLOGY ==
    <<"I apologize, but I'm having trouble completing this request. Please try rephrasing or breaking it into simpler questions.">>

PREDICT_APOLOGY ==
    <<"I apologize, but I encountered an error processing your request. Please try again or contact support.">>

NOT_FOUND == <<"Error: Function not found. Please rephrase your query.">>

PARAM_MISSING == <<"Error: This function requires parameters. Please provide: ">>

INSTRUCTION == <<"[INSTRUCTION: After presenting this data, you MUST add a '### Next Best Actions:' section]">>

PHI_WARNING == <<"Privacy Notice: Sensitive patient information is partially masked.">>

\* the text the model writes when it answers
ANSWER == <<"ANSWER">>

-----------------------------------------------------------------------------
(* The error sink.  A call of AgentLogger.log_error writes the record with *)
(* mlflow.log_dict, which returns or raises; log_error guards neither.     *)

log_error(error_type, context, delivered) ==
    [type |-> error_type, context |-> context, delivered |-> delivered]

NoContext == [function |-> <<>>, kwargs |-> <<>>, tool |-> <<>>, args |-> NoArgs]

ExecContext(udf_name, kwargs) == [NoContext EXCEPT !.function = udf_name, !.kwargs = kwargs]

ToolContext(name, arguments) == [NoContext EXCEPT !.tool = name, !.args = arguments]

-----------------------------------------------------------------------------
(* The tool registry.                                                      *)

ToolName(fn) == <<"dev_kiddo", "__", "silver", "__", fn>>

\* tools of the roster the model asks for here: the first takes no required
\* parameter, the second requires patient_mrn_filter
StatsTool == ToolName("get_gap_statistics")
HistoryTool == ToolName("get_patient_campaign_history")

\* the registry when the catalog answered at process start
UC_TOOL_NAMES ==
    {<<"dev_kiddo", ".", "silver", ".", fn>> : fn \in
        {"get_top_providers", "get_patient_360", "get_gap_categories", "get_provider_gaps",
         "get_long_open_gaps", "get_outreach_needed", "get_appointments_with_gaps",
         "get_critical_gaps", "search_patients", "get_gaps_by_type", "get_gap_statistics",
         "get_department_summary", "get_gaps_by_age", "get_gaps_no_appointments",
         "get_patient_gaps", "get_campaign_statistics", "search_campaign_opportunities",
         "get_campaign_opportunities", "get_patient_campaign_history"}}

\* the name the toolkit gives the tool of a function: every '.' becomes '__'
Alias(function_name) ==
    [i \in 1..Len(function_name) |->
        IF function_name[i] = "." THEN "__" ELSE function_name[i]]

\* one ToolInfo per tool of the toolkit, known by its name
TOOL_INFOS == {Alias(function_name) : function_name \in UC_TOOL_NAMES}

\* mutant: an unreachable catalog is not noticed
build_registry_unnoticed(catalog_reachable) == TOOL_INFOS

\* TOOL_INFOS stays [] when UCFunctionToolkit raises: the except branch only prints
build_registry(catalog_reachable) == IF catalog_reachable THEN TOOL_INFOS ELSE {}

\* the required parameters the catalog declares in a tool's spec
RequiredParams(name) == IF name = HistoryTool THEN <<"patient_mrn_filter">> ELSE <<>>

\* class ToolInfo(BaseModel) has the fields name, spec and exec_fn
ToolInfoFields == {"name", "spec", "exec_fn"}

hasattr_ToolInfo(field) == field \in ToolInfoFields

\* udf_name = tool_name.replace("__", ".")
\* mutant: the service is called with the tool's name
udf_name_of_flat(tool_name) == tool_name

udf_name_of(tool_name) == [i \in 1..Len(tool_name) |-> IF tool_name[i] = "__" THEN "." ELSE tool_name[i]]

\* s.startswith(tok) at position i
OccursAt(s, tok, i) ==
    /\ i + Len(tok) - 1 <= Len(s)
    /\ \A k \in 1..Len(tok) : s[i + k - 1] = tok[k]

\* s.replace(tok, ''): the occurrences of tok, left to right, without overlap
RECURSIVE Remove(_, _)
Remove(s, tok) ==
    IF s = <<>> THEN <<>>
    ELSE IF OccursAt(s, tok, 1) THEN Remove(SubSeq(s, Len(tok) + 1, Len(s)), tok)
    ELSE <<Head(s)>> \o Remove(Tail(s), tok)

bad_tokens ==
    << <<"<|", "chan", "nel", "|>">>,
       <<"<|", "comm", "entary", "|>">>,
       <<"comm", "entary">>,
       <<"chan", "nel">>,
       <<"<|">>,
       <<"|>">> >>

RECURSIVE RemoveTokens(_, _)
RemoveTokens(s, k) ==
    IF k > Len(bad_tokens) THEN s ELSE RemoveTokens(Remove(s, bad_tokens[k]), k + 1)

_sanitize_function_name(raw_name) ==
    IF raw_name = <<>> THEN raw_name ELSE RemoveTokens(raw_name, 1)

-----------------------------------------------------------------------------
(* Argument payloads: the text of a tool-call request's arguments.         *)

BlankKeys == {"", " "}

Dict(map) == [json |-> "dict", map |-> map]

InvalidJson == [json |-> "invalid", map |-> <<>>]
JsonList == [json |-> "list", map |-> <<>>]
JsonNull == [json |-> "null", map |-> <<>>]

EmptyDict == Dict(<<>>)
BlankDict == Dict([k \in {""} |-> ""])
MixedDict == Dict([k \in {"", "limit_rows"} |-> IF k = "" THEN "" ELSE "5"])
RowsDict == Dict([k \in {"limit_rows"} |-> "5"])
SpaceDict == Dict([k \in {" ", "limit_rows"} |-> IF k = " " THEN "x" ELSE "5"])

\* mutant: only the empty key is dropped
DropBlankKeys_empty_only(map) == [k \in {x \in DOMAIN map : x # ""} |-> map[k]]

\* {k: v for k, v in args.items() if k and k.strip()}
DropBlankKeys(map) == [k \in {x \in DOMAIN map : x \notin BlankKeys} |-> map[k]]

\* not args
IsFalsy(parsed) ==
    \/ parsed.json = "null"
    \/ parsed.json = "dict" /\ DOMAIN parsed.map = {}

-----------------------------------------------------------------------------
(* The function executor and the result formatter.                         *)

\* A value is a list of records, a list of plain items, a single mapping, a
\* text or None.  A record is a sequence of <<field, cell>> pairs in the order
\* of its keys; a cell is the name of a text: "v5", "v80" and "v81" are texts
\* of 5, 80 and 81 characters, "v81[:80]" the first 80 characters of "v81".
Fields == <<"patient_name", "gap_type">>

Cells == {"", "v5", "v80", "v81"}

CellLen(c) ==
    CASE c = "" -> 0
      [] c = "v5" -> 5
      [] c \in {"v80", "v81[:80]"} -> 80
      [] c = "v81" -> 81

Row(cells) == [i \in 1..Len(Fields) |-> <<Fields[i], cells[i]>>]

ListValue(rows) == [t |-> "list", rows |-> rows, text |-> <<>>, phi |-> "raw"]

ItemsValue(items) ==
    [t |-> "items", rows |-> [i \in 1..Len(items) |-> << <<"", items[i]>> >>],
     text |-> <<>>, phi |-> "raw"]

DictValue(row) == [t |-> "dict", rows |-> <<row>>, text |-> <<>>, phi |-> "raw"]

StrValue(text) == [t |-> "str", rows |-> <<>>, text |-> text, phi |-> "raw"]

NoValue == [t |-> "none", rows |-> <<>>, text |-> <<>>, phi |-> "raw"]

\* what the function-execution service does with one call
RemoteValues == {ListValue(<<Row(<<"v5", "v81">>), Row(<<"v80", "">>)>>), ListValue(<<>>)}

RemoteOutcomes ==
    {[kind |-> "value", value |-> v] : v \in RemoteValues}
    \cup {[kind |-> "error", value |-> NoValue], [kind |-> "throws", value |-> NoValue]}

\* PHIMasker.mask_result on the value of a call (earlier variant)
mask_result(v) == [v EXCEPT !.phi = "masked"]

ExecResult(out, value, logs) == [out |-> out, value |-> value, logs |-> logs]

\* create_tool_info.exec_fn: s1, s2 tell whether the sink takes the record of
\* the first and of the second log_error call
exec_fn(v, udf_name, kwargs, remote, s1, s2) ==
    LET ctx == ExecContext(udf_name, kwargs)
        L1 == log_error("function_execution_error", ctx, s1)
        L2 == log_error("function_exception", ctx, s2)
        \* except Exception as e: log, then return f"Error: {str(e)}"
        Handler(e, before) ==
            IF s2 THEN ExecResult("return", StrValue(<<"Error: ", e>>), before \o <<L2>>)
            ELSE ExecResult("raise", StrValue(<<"SinkError">>), before \o <<L2>>)
    IN  CASE remote.kind = "value" ->
               ExecResult("return",
                          IF v = "earlier" THEN mask_result(remote.value) ELSE remote.value,
                          <<>>)
          [] remote.kind = "error" /\ s1 ->
               ExecResult("return",
                          StrValue(<<"Error executing ">> \o udf_name \o <<": REMOTE_ERROR">>),
                          <<L1>>)
          [] remote.kind = "error" /\ ~s1 -> Handler("SinkError", <<L1>>)
          [] remote.kind = "throws" -> Handler("RemoteException", <<>>)

\* the texts of parts, one after the other, with sep between them
RECURSIVE Join(_, _)
Join(parts, sep) ==
    IF parts = <<>> THEN <<>>
    ELSE IF Len(parts) = 1 THEN parts[1]
    ELSE parts[1] \o sep \o Join(Tail(parts), sep)

\* h.replace('_', ' ').title()
Humanize(h) ==
    CASE h = "patient_name" -> "Patient Name"
      [] h = "gap_type" -> "Gap Type"
      [] OTHER -> h

\* mutant: the cell is not cut
Slice80_whole(c) == c

\* str(...)[:80]
Slice80(c) == IF c = "v81" THEN "v81[:80]" ELSE c

\* list(row.keys())
Keys(row) == [i \in 1..Len(row) |-> row[i][1]]

\* row.get(h, '')
Get(row, h) ==
    LET hits == SelectSeq(row, LAMBDA pair : pair[1] = h)
    IN  IF hits = <<>> THEN "" ELSE hits[1][2]

_format_table(value) ==
    LET data == value.rows
        headers == Keys(data[1])
        cols == 1..Len(headers)
        header == <<"| ">> \o Join([i \in cols |-> <<Humanize(headers[i])>>], <<" | ">>)
                  \o <<" |">>
        separator == <<"|">> \o Join([i \in cols |-> <<"---">>], <<"|">>) \o <<"|">>
        row_line(row) ==
            <<"| ">> \o Join([i \in cols |-> <<Slice80(Get(row, headers[i]))>>], <<" | ">>)
            \o <<" |">>
        lines == <<header, separator>>
                 \o [i \in 1..Len(data) |-> row_line(data[i])]
                 \o << <<"NL", "**Total: ", ToString(Len(data)), " results**">>,
                       <<"NL", "### Next Best Actions:">>,
                       <<"Please provide 3-5 specific action items based on this data.">> >>
    IN  IF data = <<>> THEN <<"No results found.">> ELSE Join(lines, <<"NL">>)

_format_list_result(value) ==
    IF value.rows = <<>> THEN <<"No results found.">>
    ELSE IF value.t = "list" THEN _format_table(value)
    ELSE Join([i \in 1..Len(value.rows) |-> <<"* ", value.rows[i][1][2]>>], <<"NL">>)

_format_dict_result(value) ==
    LET row == value.rows[1]
    IN  Join([i \in 1..Len(row) |-> <<Humanize(row[i][1]), ": ", row[i][2]>>], <<"NL">>)

\* str(value)
Str(value) ==
    CASE value.t = "str" -> value.text
      [] value.t = "none" -> <<"None">>
      [] OTHER -> <<"repr", value.t, ToString(Len(value.rows)), value.phi>>

\* mutant: the instruction is appended to every result
needs_instruction_always(value) == TRUE

\* isinstance(result, (list, dict)) and result
needs_instruction(value) ==
    \/ value.t \in {"list", "items"} /\ value.rows # <<>>
    \/ value.t = "dict" /\ value.rows[1] # <<>>

\* the formatting of a result in execute_tool
format_result(value) ==
    CASE value.t = "dict" -> _format_dict_result(value)
      [] value.t \in {"list", "items"} -> _format_list_result(value)
      [] OTHER -> Str(value)

ToolResult(out, text, called, execs, logs) ==
    [out |-> out, text |-> text, called |-> called, execs |-> execs, logs |-> logs]

\* the text execute_tool makes of a result: the formatted result of the primary
\* variant, str(result) of the earlier one (whose handler applies str)
formatted_text(v, value) == IF v = "earlier" THEN Str(value) ELSE format_result(value)

\* the instruction is appended to the formatted text (primary variant)
shape_result(v, value, formatted) ==
    IF v = "primary" /\ needs_instruction(value) THEN formatted \o INSTRUCTION ELSE formatted

\* execute_tool once exec_fn has ended with r and its value has the text formatted
shaped(v, tool_name, udf, kwargs, remote_kind, r, formatted) ==
    LET call == [function |-> udf, kwargs |-> kwargs, remote |-> remote_kind,
                 out |-> r.out, result |-> r.value,
                 formatted |-> IF r.out = "raise" THEN <<>> ELSE formatted]
    IN  IF r.out = "raise"
        THEN ToolResult("raise", r.value.text, <<tool_name>>, <<call>>, r.logs)
        ELSE ToolResult("return", shape_result(v, r.value, formatted), <<tool_name>>,
                        <<call>>, r.logs)

\* execute_tool once exec_fn has ended with r
executed(v, tool_name, udf, kwargs, remote_kind, r) ==
    shaped(v, tool_name, udf, kwargs, remote_kind, r, formatted_text(v, r.value))

\* mutant: an execution that fails is tried once more
execute_tool_retrying(v, tool_name, args, remote, s1, s2) ==
    IF args.json # "dict" \/ tool_name \notin tools_dict
    THEN ToolResult("raise", <<"TypeError">>, <<tool_name>>, <<>>, <<>>)
    ELSE LET udf == udf_name_of(tool_name)
             r == exec_fn(v, udf, args.map, remote, s1, s2)
             call == [function |-> udf, kwargs |-> args.map, remote |-> remote.kind,
                      out |-> r.out, result |-> r.value, formatted |-> <<>>]
         IN  ToolResult(r.out, IF r.out = "raise" THEN r.value.text ELSE Str(r.value),
                        <<tool_name>>,
                        IF remote.kind = "value" THEN <<call>> ELSE <<call, call>>,
                        r.logs \o (IF remote.kind = "value" THEN <<>> ELSE r.logs))

\* ToolCallingAgent.execute_tool; args is the parsed argument value
execute_tool(v, tool_name, args, remote, s1, s2) ==
    IF v = "earlier" /\ tool_name \notin tools_dict
    THEN \* self._tools_dict[tool_name] raises KeyError
         ToolResult("raise", <<"KeyError">>, <<tool_name>>, <<>>, <<>>)
    ELSE IF args.json # "dict"
    THEN \* exec_fn(**args) with args no mapping raises TypeError before the call
         ToolResult("raise", <<"TypeError">>, <<tool_name>>, <<>>, <<>>)
    ELSE executed(v, tool_name, udf_name_of(tool_name), args.map, remote.kind,
                  exec_fn(v, udf_name_of(tool_name), args.map, remote, s1, s2))

HandleResult(raised, path, clean_name, exec_args, output, r) ==
    [raised |-> raised, path |-> path, clean_name |-> clean_name, exec_args |-> exec_args,
     output |-> output, called |-> r.called, execs |-> r.execs, logs |-> r.logs]

Nothing == ToolResult("return", <<>>, <<>>, <<>>, <<>>)

\* the except branch of handle_tool_call: report, then turn the exception into text
ExceptBranch(tc, clean_name, exec_args, e, r, s3) ==
    LET L3 == log_error("tool_call_error", ToolContext(tc.name, tc.arguments), s3)
        rr == [r EXCEPT !.logs = @ \o <<L3>>]
    IN  IF s3
        THEN HandleResult(FALSE, "exception", clean_name, exec_args,
                          <<"Error executing tool: ">> \o e, rr)
        ELSE HandleResult(TRUE, "exception", clean_name, exec_args, <<"SinkError">>, rr)

\* handle_tool_call once execute_tool has ended with r: its text is the
\* result, its exception is taken by the except branch
tool_result(tc, clean_name, args, r, s3) ==
    IF r.out = "raise"
    THEN ExceptBranch(tc, clean_name, args, r.text, r, s3)
    ELSE HandleResult(FALSE, "executed", clean_name, args, r.text, r)

\* ToolCallingAgent.handle_tool_call of the earlier variant
handle_tool_call_earlier(tc, remote, s1, s2, s3) ==
    IF tc.arguments.json = "invalid"
    THEN ExceptBranch(tc, tc.name, NoArgs, <<"JSONDecodeError">>, Nothing, s3)
    ELSE tool_result(tc, tc.name, tc.arguments,
                     execute_tool("earlier", tc.name, tc.arguments, remote, s1, s2), s3)

\* mutant: the primary handler without the registry lookup
handle_tool_call_unchecked(tc, remote, s1, s2, s3) ==
    handle_tool_call_earlier(tc, remote, s1, s2, s3)

\* json.loads(tool_call["arguments"]), then the blank keys of a mapping dropped
loaded_args(tc) ==
    IF tc.arguments.json = "dict" THEN Dict(DropBlankKeys(tc.arguments.map)) ELSE tc.arguments

\* handle_tool_call of the primary variant once the name is repaired and the
\* arguments are loaded: the parameter check, the registry lookup, the execution
checked_tool_call(tc, clean_name, args, remote, s1, s2, s3) ==
    IF /\ IsFalsy(args)
       /\ clean_name \in tools_dict
       /\ hasattr_ToolInfo("parameters")
       /\ RequiredParams(clean_name) # <<>>
    THEN HandleResult(FALSE, "param_missing", clean_name, args,
                      PARAM_MISSING \o RequiredParams(clean_name), Nothing)
    ELSE IF clean_name \notin tools_dict
    THEN HandleResult(FALSE, "not_found", clean_name, args, NOT_FOUND, Nothing)
    ELSE tool_result(tc, clean_name, args,
                     execute_tool("primary", clean_name, args, remote, s1, s2), s3)

\* ToolCallingAgent.handle_tool_call of the primary variant
handle_tool_call_primary(tc, remote, s1, s2, s3) ==
    IF tc.arguments.json = "invalid"
    THEN ExceptBranch(tc, _sanitize_function_name(tc.name), NoArgs, <<"JSONDecodeError">>,
                      Nothing, s3)
    ELSE checked_tool_call(tc, _sanitize_function_name(tc.name), loaded_args(tc),
                           remote, s1, s2, s3)

handle_tool_call(v, tc, remote, s1, s2, s3) ==
    IF v = "primary" THEN handle_tool_call_primary(tc, remote, s1, s2, s3)
    ELSE handle_tool_call_earlier(tc, remote, s1, s2, s3)

-----------------------------------------------------------------------------
(* The completion stream adapter: call_llm, and the aggregation of its     *)
(* chunks by output_to_responses_items_stream.                             *)

UnknownTool == <<"get_stats">>
GarbledTool == StatsTool \o <<"<|", "chan", "nel", "|>", "comm", "entary">>

ToolCall(name, arguments) == [name |-> name, arguments |-> arguments]

\* the tool-call requests the model issues
ToolCallRequests ==
    {ToolCall(StatsTool, RowsDict), ToolCall(StatsTool, JsonList),
     ToolCall(StatsTool, SpaceDict),
     ToolCall(HistoryTool, EmptyDict), ToolCall(HistoryTool, BlankDict),
     ToolCall(HistoryTool, MixedDict),
     ToolCall(UnknownTool, EmptyDict), ToolCall(UnknownTool, RowsDict),
     ToolCall(UnknownTool, JsonList),
     ToolCall(GarbledTool, RowsDict)}

\* what one model turn delivers: text chunks, a tool-call request, an exception
\* of the endpoint (before the first chunk or after some chunks)
TurnKinds ==
    {"empty", "text", "tool", "text_tool", "raise_first", "raise_after_text", "raise_after_tool"}

HasTool(kind) == kind \in {"tool", "text_tool", "raise_after_tool"}

Raises(kind) == kind \in {"raise_first", "raise_after_text", "raise_after_tool"}

IsFunctionCall(m) == m.type = "function_call"

LlmCall(kind, at) == [kind |-> kind, at |-> at]

ToolCallsIssued(calls) == Len(SelectSeq(calls, LAMBDA c : HasTool(c.kind)))

\* the requests a model turn of this kind may carry: a first request is any of
\* ToolCallRequests (with text before it: the plain one; cut off by an exception:
\* one with cut-off arguments), a model that asks again repeats its request
NextRequests(kind, msgs) ==
    LET asked == SelectSeq(msgs, IsFunctionCall)
    IN  IF asked # <<>>
        THEN {ToolCall(asked[Len(asked)].name, asked[Len(asked)].arguments)}
        ELSE CASE kind = "tool" -> ToolCallRequests
               [] kind = "text_tool" -> {ToolCall(StatsTool, RowsDict)}
               [] kind = "raise_after_tool" -> {ToolCall(StatsTool, InvalidJson)}
               [] OTHER -> {}

\* a model that delivered nothing in its last turn delivers nothing again
TurnAllowed(kind, calls) ==
    calls # <<>> /\ calls[Len(calls)].kind = "empty" => kind = "empty"

RECURSIVE MaxCallId(_)
MaxCallId(msgs) ==
    IF msgs = <<>> THEN 0
    ELSE LET rest == MaxCallId(Tail(msgs))
         IN IF Head(msgs).call_id > rest THEN Head(msgs).call_id ELSE rest

TurnResult(raised, appended, evs, logs) ==
    [raised |-> raised, appended |-> appended, evs |-> evs, logs |-> logs]

\* mutant: call_llm swallows the endpoint's exception and yields nothing for it
error_chunk_none(kind) == <<>>

\* the content of the chunk call_llm yields in its except branch
error_chunk(kind) == IF Raises(kind) THEN LLM_APOLOGY ELSE <<>>

\* call_llm yields the endpoint's chunks and, when the endpoint raises, reports
\* the error and yields one chunk with the apology; the stream is aggregated
\* into a text item (when there is text) and a function-call item (when a tool
\* call was requested), both appended to the messages
LlmTurn(kind, req, call_id, sink) ==
    LET before == IF kind \in {"text", "text_tool", "raise_after_text"}
                  THEN <<DeltaEvent(ANSWER)>> ELSE <<>>
        text == (IF kind \in {"text", "text_tool", "raise_after_text"} THEN ANSWER ELSE <<>>)
                \o error_chunk(kind)
        textItem == create_text_output_item(text)
        callItem == create_function_call_item(call_id, req.name, req.arguments)
        items == (IF text # <<>> THEN <<textItem>> ELSE <<>>)
                 \o (IF HasTool(kind) THEN <<callItem>> ELSE <<>>)
        logs == IF Raises(kind) THEN <<log_error("llm_call_error", NoContext, sink)>> ELSE <<>>
    IN  IF Raises(kind) /\ ~sink
        THEN TurnResult(TRUE, <<>>, before, logs)
        ELSE TurnResult(FALSE, items,
                        before \o (IF error_chunk(kind) # <<>>
                                   THEN <<DeltaEvent(error_chunk(kind))>> ELSE <<>>)
                               \o [i \in 1..Len(items) |-> DoneEvent(items[i])],
                        logs)

-----------------------------------------------------------------------------
(* Requests.                                                               *)

ValidText == <<"x", " ", "x">>
DangerousText == <<";", " ", "DROP", " ", "table", " ", "x", ";", " ", "--">>
LongText == <<"RUN", "x", "x", "x", "x">>

Request(input) == [input |-> input, custom_inputs |-> "CUSTOM"]

Requests ==
    {Request(<<UserMsg(ValidText)>>),
     Request(<<UserMsg(DangerousText)>>),
     Request(<<UserMsg(LongText)>>),
     Request(<<UserMsg(ValidText), create_text_output_item(ANSWER)>>)}

NoResponse == [output |-> <<>>, custom_outputs |-> "none", returned |-> FALSE]

Response(output, custom) == [output |-> output, custom_outputs |-> custom, returned |-> TRUE]

NoVerdict == <<FALSE, "none">>

NoCall ==
    [raised |-> FALSE, path |-> "none", clean_name |-> <<>>, exec_args |-> NoArgs,
     output |-> <<>>, called |-> <<>>, execs |-> <<>>, logs |-> <<>>,
     name |-> <<>>, arguments |-> NoArgs, call_id |-> 0, at |-> 0]

max_iter(v) == IF v = "primary" THEN MaxIterPrimary ELSE MaxIterEarlier

\* mutant: one iteration too many
InRange_inclusive(i, v) == i <= max_iter(v)

\* for iteration in range(max_iter): the loop body runs while iterations remain
InRange(i, v) == i < max_iter(v)

IsDone(e) == e.type = "response.output_item.done"

\* mutant: the item of every event is collected, whatever its type
DoneItems_every_event(evs) == [i \in 1..Len(evs) |-> evs[i].item]

\* [event.item for event in ... if event.type == "response.output_item.done"]
DoneItems(evs) == LET d == SelectSeq(evs, IsDone) IN [i \in 1..Len(d) |-> d[i].item]

\* mutant: the truncation keeps the trailing window only
Truncate_window_only(msgs) ==
    IF Len(msgs) > HistoryThreshold
    THEN SubSeq(msgs, Len(msgs) - HistoryWindow + 1, Len(msgs))
    ELSE msgs

\* the history truncation at the head of call_and_run_tools (primary variant)
Truncate(msgs) ==
    IF Len(msgs) > HistoryThreshold
    THEN LET recent == SubSeq(msgs, Len(msgs) - HistoryWindow + 1, Len(msgs))
         IN IF msgs[1].role = "system" THEN <<msgs[1]>> \o recent ELSE recent
    ELSE msgs

-----------------------------------------------------------------------------
(* One request served by the agent.                                        *)

PcValues == {"start", "loop", "done", "exhausted", "rejected", "returned", "raised",
             "guard", "guarded", "conc", "name", "named", "history", "truncated", "boot",
             "mask", "masked", "nested"}

Init ==
    /\ variant \in {"primary", "earlier"}
    /\ pc = "start"
    /\ request \in Requests
    /\ messages = <<>>
    /\ iteration = 0
    /\ events = <<>>
    /\ errlog = <<>>
    /\ functions_called = <<>>
    /\ llm_calls = <<>>
    /\ exec_calls = <<>>
    /\ last_call = NoCall
    /\ user_input = <<>>
    /\ verdict = NoVerdict
    /\ querylog = <<>>
    /\ response = NoResponse
    /\ tools_dict = build_registry(TRUE)
    /\ peers = <<>>

log_query(success, functions, delivered) ==
    [success |-> success, functions |-> functions, delivered |-> delivered]

\* an exception leaves predict_stream: the primary predict lets it through, the
\* earlier predict reports the query as failed and answers with an apology
Escape(q) ==
    IF variant = "primary"
    THEN /\ pc' = "raised"
         /\ response' = NoResponse
         /\ querylog' = querylog
    ELSE /\ querylog' = Append(querylog, log_query(FALSE, functions_called', q))
         /\ pc' = IF q THEN "returned" ELSE "raised"
         /\ response' = IF q THEN Response(<<create_text_output_item(PREDICT_APOLOGY)>>,
                                           request.custom_inputs)
                        ELSE NoResponse

\* predict and predict_stream of the primary variant up to the loop: no guard;
\* the system prompt is put first and call_and_run_tools truncates the history
PredictPrimary ==
    /\ pc = "start"
    /\ variant = "primary"
    /\ messages' = Truncate(<<SystemMsg>> \o request.input)
    /\ pc' = "loop"
    /\ UNCHANGED <<variant, tools_dict, peers, request, iteration, events, errlog, functions_called,
                   llm_calls, exec_calls, last_call, user_input, verdict, querylog, response>>

\* predict of the earlier variant up to the loop: the call log is reset and the
\* last input message goes through the guard
PredictEarlier ==
    /\ pc = "start"
    /\ variant = "earlier"
    /\ functions_called' = <<>>
    /\ LET user_query == request.input[Len(request.input)].text
           v == is_safe_input(user_query)
       IN  /\ user_input' = user_query
           /\ verdict' = v
           /\ IF v[1]
              THEN /\ messages' = <<SystemMsg>> \o request.input
                   /\ pc' = "loop"
                   /\ UNCHANGED <<errlog, response>>
              ELSE \E sink \in BOOLEAN :
                   /\ errlog' = Append(errlog,
                                       log_error("input_validation_failed", NoContext, sink))
                   /\ pc' = IF sink THEN "rejected" ELSE "raised"
                   /\ response' =
                        IF sink
                        THEN Response(<<create_text_output_item(
                                          <<"I cannot process this request: ", v[2]>>)>>,
                                      request.custom_inputs)
                        ELSE NoResponse
                   /\ UNCHANGED messages
    /\ UNCHANGED <<variant, tools_dict, peers, request, iteration, events, llm_calls, exec_calls, last_call,
                   querylog>>

Tail_(msgs) == msgs[Len(msgs)]

\* mutant: an assistant message at the tail is answered by one more model turn
LoopBranch_no_return(last_msg) ==
    IF last_msg.type = "function_call" THEN "tool" ELSE "llm"

\* the branch an iteration takes on the last message: return on an assistant
\* message, else handle a tool-call request, else call the model
LoopBranch(last_msg) ==
    IF last_msg.role = "assistant" THEN "return"
    ELSE IF last_msg.type = "function_call" THEN "tool"
    ELSE "llm"

\* an iteration that finds an assistant message last: return
IterDone ==
    /\ pc = "loop"
    /\ InRange(iteration, variant)
    /\ LoopBranch(Tail_(messages)) = "return"
    /\ iteration' = iteration + 1
    /\ pc' = "done"
    /\ UNCHANGED <<variant, tools_dict, peers, request, messages, events, errlog, functions_called, llm_calls,
                   exec_calls, last_call, user_input, verdict, querylog, response>>

\* the loop takes what handle_tool_call did with the request tc: h is the
\* handler's outcome (its event, or its exception, which leaves the loop)
Handled(tc, h, q) ==
    /\ iteration' = iteration + 1
    /\ functions_called' = functions_called \o h.called
    /\ exec_calls' = exec_calls \o h.execs
    /\ errlog' = errlog \o h.logs
    /\ last_call' = [raised |-> h.raised, path |-> h.path,
                     clean_name |-> h.clean_name, exec_args |-> h.exec_args,
                     output |-> h.output, called |-> h.called, execs |-> h.execs,
                     logs |-> h.logs, name |-> tc.name,
                     arguments |-> tc.arguments, call_id |-> tc.call_id,
                     at |-> iteration + 1]
    /\ IF h.raised
       THEN /\ Escape(q)
            /\ UNCHANGED <<messages, events>>
       ELSE /\ messages' =
                 Append(messages, create_function_call_output_item(tc.call_id, h.output))
            /\ events' =
                 Append(events,
                        DoneEvent(create_function_call_output_item(tc.call_id, h.output)))
            /\ pc' = "loop"
            /\ UNCHANGED <<querylog, response>>

\* an iteration that finds a tool-call request last: handle_tool_call, the
\* function-execution service answering with one of remotes and the error sink
\* delivering (TRUE) or raising (FALSE) as drawn from sinks on each log call
HandleToolCall(remotes, sinks) ==
    /\ pc = "loop"
    /\ InRange(iteration, variant)
    /\ LoopBranch(Tail_(messages)) = "tool"
    /\ \E remote \in remotes, s1 \in sinks, s2 \in sinks, s3 \in sinks, q \in sinks :
         Handled(Tail_(messages),
                 handle_tool_call(variant, Tail_(messages), remote, s1, s2, s3), q)
    /\ UNCHANGED <<variant, tools_dict, peers, request, llm_calls, user_input, verdict>>

IterTool == HandleToolCall(RemoteOutcomes, BOOLEAN)

\* any other iteration: a model turn, of one of kinds, the model asking for
\* a tool at most max_calls times in a request
ModelTurn(kinds, max_calls) ==
    /\ pc = "loop"
    /\ InRange(iteration, variant)
    /\ LoopBranch(Tail_(messages)) = "llm"
    /\ \E kind \in kinds, sink \in BOOLEAN, q \in BOOLEAN :
         /\ TurnAllowed(kind, llm_calls)
         /\ HasTool(kind) => ToolCallsIssued(llm_calls) < max_calls
         /\ \E req \in IF HasTool(kind) THEN NextRequests(kind, messages)
                       ELSE {ToolCall(<<>>, NoArgs)} :
              LET t == LlmTurn(kind, req, MaxCallId(messages) + 1, sink)
              IN  /\ iteration' = iteration + 1
                  /\ llm_calls' = Append(llm_calls, LlmCall(kind, iteration + 1))
                  /\ errlog' = errlog \o t.logs
                  /\ events' = events \o t.evs
                  /\ functions_called' = functions_called
                  /\ IF t.raised
                     THEN /\ Escape(q)
                          /\ UNCHANGED messages
                     ELSE /\ messages' = messages \o t.appended
                          /\ pc' = "loop"
                          /\ UNCHANGED <<querylog, response>>
    /\ UNCHANGED <<variant, tools_dict, peers, request, exec_calls, last_call, user_input, verdict>>

IterLLM == ModelTurn(TurnKinds, MaxToolCalls)

\* the iterations are used up: report max_iterations, then the apology
Exhaust ==
    /\ pc = "loop"
    /\ iteration = max_iter(variant)
    /\ \E sink \in BOOLEAN, q \in BOOLEAN :
         /\ errlog' = Append(errlog, log_error("max_iterations", NoContext, sink))
         /\ functions_called' = functions_called
         /\ IF sink
            THEN /\ events' = Append(events,
                                     DoneEvent(create_text_output_item(MAX_ITER_APOLOGY)))
                 /\ pc' = "exhausted"
                 /\ UNCHANGED <<querylog, response>>
            ELSE /\ Escape(q)
                 /\ UNCHANGED events
    /\ UNCHANGED <<variant, tools_dict, peers, request, messages, iteration, llm_calls, exec_calls, last_call,
                   user_input, verdict>>

\* the loop has returned: predict builds the response (the earlier variant adds
\* its privacy notice and reports the query first)
Return ==
    /\ pc \in {"done", "exhausted"}
    /\ IF variant = "primary"
       THEN /\ response' = Response(DoneItems(events), request.custom_inputs)
            /\ pc' = "returned"
            /\ UNCHANGED <<events, querylog>>
       ELSE \E q1 \in BOOLEAN, q2 \in BOOLEAN :
            /\ events' = Append(events, DoneEvent(create_text_output_item(PHI_WARNING)))
            /\ querylog' = querylog
                    \o <<log_query(TRUE, functions_called, q1)>>
                    \o (IF q1 THEN <<>> ELSE <<log_query(FALSE, functions_called, q2)>>)
            /\ pc' = IF q1 \/ q2 THEN "returned" ELSE "raised"
            /\ response' =
                 IF q1 THEN Response(DoneItems(events'), request.custom_inputs)
                 ELSE IF q2 THEN Response(<<create_text_output_item(PREDICT_APOLOGY)>>,
                                          request.custom_inputs)
                 ELSE NoResponse
    /\ UNCHANGED <<variant, tools_dict, peers, request, messages, iteration, errlog, functions_called,
                   llm_calls, exec_calls, last_call, user_input, verdict>>

Next ==
    \/ PredictPrimary
    \/ PredictEarlier
    \/ IterDone
    \/ IterTool
    \/ IterLLM
    \/ Exhaust
    \/ Return

Spec == Init /\ [][Next]_vars

-----------------------------------------------------------------------------
(* The input guard on its own: is_safe_input applied to every text of at   *)
(* most MaxTokens lexemes over the lexemes of one family of patterns.      *)

GuardFamilies ==
    {{";", " ", "drop", "DROP", "table", "x"},
     {";", " ", "NL", "delete", "from", "x"},
     {";", " ", "NL", "update", "set", "x"},
     {"union", "select", "Select", " ", "NL", "x"},
     {"--", "/*", "*/", " ", "NL", "RUN", "x"}}

SeqsUpTo(A, n) == UNION {[1..k -> A] : k \in 0..n}

InitGuard ==
    /\ variant = "primary"
    /\ pc = "guard"
    /\ request = Request(<<>>)
    /\ messages = <<>>
    /\ iteration = 0
    /\ events = <<>>
    /\ errlog = <<>>
    /\ functions_called = <<>>
    /\ llm_calls = <<>>
    /\ exec_calls = <<>>
    /\ last_call = NoCall
    /\ user_input \in UNION {SeqsUpTo(F, MaxTokens) : F \in GuardFamilies}
    /\ verdict = NoVerdict
    /\ querylog = <<>>
    /\ response = NoResponse
    /\ tools_dict = build_registry(TRUE)
    /\ peers = <<>>

Validate ==
    /\ pc = "guard"
    /\ verdict' = is_safe_input(user_input)
    /\ pc' = "guarded"
    /\ UNCHANGED <<variant, tools_dict, peers, request, messages, iteration, events, errlog, functions_called,
                   llm_calls, exec_calls, last_call, user_input, querylog, response>>

NextGuard == Validate

SpecGuard == InitGuard /\ [][NextGuard]_vars

-----------------------------------------------------------------------------
(* Properties of the loop (Spec) and of the guard (SpecGuard).             *)

Last(s) == s[Len(s)]

EndsWith(s, t) == Len(s) >= Len(t) /\ SubSeq(s, Len(s) - Len(t) + 1, Len(s)) = t

ApologyEvent == DoneEvent(create_text_output_item(MAX_ITER_APOLOGY))

\* the last tool call was handled in the iteration just finished
JustHandled == last_call.path # "none" /\ last_call.at = iteration /\ pc = "loop"

\* C1: the loop runs at most max_iter iterations, 10 in the primary variant and
\* 5 in the earlier one, so the model calls and the tool executions of one
\* request together never exceed max_iter, and at the ceiling no further
\* iteration runs; an iteration before the ceiling that finds an assistant
\* message last does nothing but return (Done).
C1_IterationCeiling ==
    /\ max_iter("primary") = 10
    /\ max_iter("earlier") = 5
    /\ iteration <= max_iter(variant)
    /\ Len(llm_calls) + Len(exec_calls) <= iteration
    /\ pc = "loop" /\ iteration = max_iter(variant)
         => ~ENABLED IterDone /\ ~ENABLED IterTool /\ ~ENABLED IterLLM
    /\ pc = "loop" /\ iteration < max_iter(variant) /\ Tail_(messages).role = "assistant"
         => ENABLED IterDone /\ ~ENABLED IterTool /\ ~ENABLED IterLLM /\ ~ENABLED Exhaust
    /\ pc = "done" => Tail_(messages).role = "assistant"

\* C1 witness: the primary loop used all its iterations on model calls and one
\* tool execution
C1_Witness ==
    /\ variant = "primary"
    /\ pc = "exhausted"
    /\ iteration = MaxIterPrimary
    /\ Len(exec_calls) = 1
    /\ Len(llm_calls) + Len(exec_calls) = MaxIterPrimary

\* C2 (as stated): once the primary loop has used up its iterations and reports
\* max_iterations, it stops without raising, the report is the only one of its
\* type, and the fixed apology is the last event and occurs once.
C2_CeilingApology ==
    (variant = "primary" /\ errlog # <<>> /\ Last(errlog).type = "max_iterations") =>
        /\ pc \in {"exhausted", "returned"}
        /\ Len(SelectSeq(errlog, LAMBDA l : l.type = "max_iterations")) = 1
        /\ Last(errlog).delivered
        /\ events # <<>>
        /\ Last(events) = ApologyEvent
        /\ Len(SelectSeq(events, LAMBDA e : e = ApologyEvent)) = 1

\* C3: a tool call whose repaired name is not registered, with any arguments
\* that parse, invokes no executor; its output is the Function-not-found text,
\* nothing is raised, and the next iteration (if one remains) asks the model.
C3_UnknownTool ==
    (/\ variant = "primary"
     /\ last_call.path # "none"
     /\ last_call.arguments.json # "invalid"
     /\ _sanitize_function_name(last_call.name) \notin tools_dict) =>
        /\ last_call.path = "not_found"
        /\ ~last_call.raised
        /\ last_call.execs = <<>>
        /\ last_call.called = <<>>
        /\ last_call.output = NOT_FOUND
        /\ last_call.at = iteration => pc # "raised" \/ Last(errlog).type = "max_iterations"
        /\ JustHandled =>
             Tail_(messages) = create_function_call_output_item(last_call.call_id, NOT_FOUND)
        /\ JustHandled /\ iteration < max_iter(variant) =>
             ENABLED IterLLM /\ ~ENABLED IterDone /\ ~ENABLED IterTool

\* C3 witness: an unregistered name with well-formed arguments was answered
\* with the not-found text and the model was asked again
C3_Witness ==
    /\ variant = "primary"
    /\ last_call.path = "not_found"
    /\ last_call.name = UnknownTool
    /\ last_call.arguments = RowsDict
    /\ Len(llm_calls) = 2
    /\ Last(llm_calls).at = last_call.at + 1

\* C4 (as stated): a call of a registered tool that has required parameters,
\* whose arguments are an empty mapping once parsed and filtered, gets the
\* parameter-missing text as output and the executor is not invoked.
C4_MissingParameters ==
    (/\ variant = "primary"
     /\ last_call.path # "none"
     /\ last_call.arguments.json = "dict"
     /\ DOMAIN DropBlankKeys(last_call.arguments.map) = {}
     /\ _sanitize_function_name(last_call.name) \in tools_dict
     /\ RequiredParams(_sanitize_function_name(last_call.name)) # <<>>) =>
        /\ last_call.execs = <<>>
        /\ last_call.output =
             PARAM_MISSING \o RequiredParams(_sanitize_function_name(last_call.name))

\* every model call of the request met an exception of the endpoint before the
\* endpoint had delivered a tool-call request
RaisesBeforeToolCall(kind) == kind \in {"raise_first", "raise_after_text"}

EndpointAlwaysRaises ==
    /\ llm_calls # <<>>
    /\ \A i \in 1..Len(llm_calls) : RaisesBeforeToolCall(llm_calls[i].kind)

C6_GuardBeforeLoop ==
    (/\ variant = "primary"
     /\ pc # "start"
     /\ ~is_safe_input(Last(request.input).text)[1]) =>
        /\ iteration = 0
        /\ llm_calls = <<>>
        /\ exec_calls = <<>>
        /\ pc # "raised"

\* C7: is_safe_input rejects the empty text; rejects a text of more than 1000
\* characters with the length reason, dangerous or not; accepts a text of 1 to
\* 1000 characters that matches no pattern; rejects a text of 1 to 1000
\* characters that matches a pattern in any letter case; and changes nothing
\* but its verdict.
C7_GuardVerdict ==
    pc = "guarded" =>
        LET n == StrLen(user_input)
            hit == \E p \in DANGEROUS_PATTERNS : Search(p, LowerSeq(user_input))
        IN  /\ user_input = <<>> => verdict = <<FALSE, ReasonEmpty>>
            /\ n > 1000 => verdict = <<FALSE, ReasonTooLong>>
            /\ n \in 1..1000 /\ ~hit => verdict = <<TRUE, ReasonValid>>
            /\ n \in 1..1000 /\ hit => verdict = <<FALSE, ReasonDangerous>>
            /\ errlog = <<>> /\ querylog = <<>> /\ events = <<>> /\ messages = <<>>

\* C7 witness: a text that is too long and matches a pattern was rejected for
\* its length
C7_Witness ==
    /\ pc = "guarded"
    /\ StrLen(user_input) > 1000
    /\ \E p \in DANGEROUS_PATTERNS : SearchIgnoreCase(p, user_input)
    /\ verdict = <<FALSE, ReasonTooLong>>

IsExecRecord(l) == l.type \in {"function_execution_error", "function_exception"}

\* C8 (as stated): an executor that was invoked returns; when the remote
\* service answered with an error or the call threw, what it returns is a
\* failure text, and exactly one error record was written, carrying the
\* namespaced function name and the arguments.
C8_ExecutorNeverRaises ==
    (variant = "primary" /\ last_call.execs # <<>>) =>
        LET c == last_call.execs[1]
            written == SelectSeq(last_call.logs, LAMBDA l : IsExecRecord(l) /\ l.delivered)
        IN  /\ c.out = "return"
            /\ c.function = udf_name_of(last_call.clean_name)
            /\ c.remote \in {"error", "throws"} =>
                 /\ Len(written) = 1
                 /\ written[1].context = ExecContext(c.function, c.kwargs)
                 /\ last_call.output[1] \in {"Error: ", "Error executing "}

\* C9 (as stated): a model call in which the endpoint raised, before its first
\* chunk or after chunks of text, leaves call_llm as one apology chunk and no
\* exception: the loop goes on with an assistant message last, which the next
\* iteration (if one remains) answers by returning.
C9_AdapterNeverRaises ==
    (/\ variant = "primary"
     /\ llm_calls # <<>>
     /\ RaisesBeforeToolCall(Last(llm_calls).kind)
     /\ Last(llm_calls).at = iteration
     /\ pc = "loop" \/ (pc = "raised" /\ Last(errlog).type = "llm_call_error")) =>
        /\ pc = "loop"
        /\ Len(SelectSeq(events, LAMBDA e : e = DeltaEvent(LLM_APOLOGY))) = 1
        /\ Tail_(messages).role = "assistant"
        /\ EndsWith(Tail_(messages).text, LLM_APOLOGY)
        /\ iteration < max_iter(variant) => ENABLED IterDone

\* C10 (as stated): a report that the sink fails to take never makes the request
\* of the primary variant end in an exception.
C10_SinkFailureHarmless ==
    (variant = "primary" /\ \E i \in 1..Len(errlog) : ~errlog[i].delivered) => pc # "raised"

-----------------------------------------------------------------------------
(* Two requests served concurrently by the one agent AGENT.  Each request  *)
(* has its own message list, iteration count and events; the attribute     *)
(* _functions_called and the sink belong to the agent.  A step of a        *)
(* request is what it does between two points where the other request may  *)
(* run: predict up to the loop, one loop iteration, predict after the      *)
(* loop.  The model, the tools and the sink behave the same for a request  *)
(* whatever the other request does: the model asks for the request's tool  *)
(* once (script "tool") or not at all (script "answer") and then answers.  *)

PeerIds == 1..2

PeerScripts == {"answer", "tool"}

PeerTool(r) == IF r = 1 THEN StatsTool ELSE HistoryTool

PeerText(r) == IF r = 1 THEN ValidText ELSE <<"x">>

PeerRemote == [kind |-> "value", value |-> ListValue(<<Row(<<"v5", "v81">>)>>)]

PeerInit(script) ==
    [pc |-> "start", script |-> script, messages |-> <<>>, iteration |-> 0,
     events |-> <<>>, log |-> <<>>]

Stepped(st, fc, ql) == [st |-> st, functions_called |-> fc, querylog |-> ql]

\* predict up to the loop: the earlier variant resets the agent's call log
peer_predict(v, r, st, fc, ql) ==
    Stepped([st EXCEPT !.pc = "loop",
                       !.messages = IF v = "primary"
                                    THEN Truncate(<<SystemMsg, UserMsg(PeerText(r))>>)
                                    ELSE <<SystemMsg, UserMsg(PeerText(r))>>],
            IF v = "earlier" THEN <<>> ELSE fc,
            ql)

\* one iteration of call_and_run_tools for the request
peer_iterate(v, r, st, fc, ql) ==
    LET last == Tail_(st.messages)
    IN  IF last.role = "assistant"
        THEN Stepped([st EXCEPT !.pc = "done", !.iteration = @ + 1], fc, ql)
        ELSE IF last.type = "function_call"
        THEN LET h == handle_tool_call(v, last, PeerRemote, TRUE, TRUE, TRUE)
                 item == create_function_call_output_item(last.call_id, h.output)
             IN  Stepped([st EXCEPT !.iteration = @ + 1,
                                    !.messages = Append(@, item),
                                    !.events = Append(@, DoneEvent(item))],
                         fc \o h.called, ql)
        ELSE LET asked == SelectSeq(st.messages, IsFunctionCall) # <<>>
                 kind == IF st.script = "tool" /\ ~asked THEN "tool" ELSE "text"
                 t == LlmTurn(kind, ToolCall(PeerTool(r), RowsDict),
                              MaxCallId(st.messages) + 1, TRUE)
             IN  Stepped([st EXCEPT !.iteration = @ + 1,
                                    !.messages = @ \o t.appended,
                                    !.events = @ \o t.evs],
                         fc, ql)

\* predict after the loop: the earlier variant reports the query with the
\* agent's call log; log is the call log the request ends with
peer_return(v, r, st, fc, ql) ==
    IF v = "earlier"
    THEN Stepped([st EXCEPT !.pc = "returned",
                            !.events = Append(@, DoneEvent(create_text_output_item(PHI_WARNING))),
                            !.log = fc],
                 fc, Append(ql, log_query(TRUE, fc, TRUE)))
    ELSE Stepped([st EXCEPT !.pc = "returned", !.log = fc], fc, ql)

peer_step(v, r, st, fc, ql) ==
    CASE st.pc = "start" -> peer_predict(v, r, st, fc, ql)
      [] st.pc = "loop" -> peer_iterate(v, r, st, fc, ql)
      [] st.pc = "done" -> peer_return(v, r, st, fc, ql)
      [] OTHER -> Stepped(st, fc, ql)

\* the request served alone by a fresh agent
RECURSIVE RunAlone(_, _, _, _, _, _)
RunAlone(v, r, st, fc, ql, fuel) ==
    IF st.pc = "returned" \/ fuel = 0 THEN st
    ELSE LET n == peer_step(v, r, st, fc, ql)
         IN  RunAlone(v, r, n.st, n.functions_called, n.querylog, fuel - 1)

Alone(r) == RunAlone(variant, r, PeerInit(peers[r].script), <<>>, <<>>, MaxIterPrimary + 2)

InitConc ==
    /\ variant \in {"primary", "earlier"}
    /\ pc = "conc"
    /\ request = Request(<<>>)
    /\ messages = <<>>
    /\ iteration = 0
    /\ events = <<>>
    /\ errlog = <<>>
    /\ functions_called = <<>>
    /\ llm_calls = <<>>
    /\ exec_calls = <<>>
    /\ last_call = NoCall
    /\ user_input = <<>>
    /\ verdict = NoVerdict
    /\ querylog = <<>>
    /\ response = NoResponse
    /\ tools_dict = build_registry(TRUE)
    /\ peers \in [PeerIds -> {PeerInit(script) : script \in PeerScripts}]

ConcTake(r) ==
    LET n == peer_step(variant, r, peers[r], functions_called, querylog)
    IN  /\ peers' = [peers EXCEPT ![r] = n.st]
        /\ functions_called' = n.functions_called
        /\ querylog' = n.querylog
        /\ UNCHANGED <<variant, tools_dict, pc, request, messages, iteration, events, errlog,
                       llm_calls, exec_calls, last_call, user_input, verdict, response>>

ConcPredict(r) == pc = "conc" /\ peers[r].pc = "start" /\ ConcTake(r)

ConcIterate(r) ==
    pc = "conc" /\ peers[r].pc = "loop" /\ InRange(peers[r].iteration, variant) /\ ConcTake(r)

ConcReturn(r) == pc = "conc" /\ peers[r].pc = "done" /\ ConcTake(r)

NextConc == \E r \in PeerIds : ConcPredict(r) \/ ConcIterate(r) \/ ConcReturn(r)

SpecConc == InitConc /\ [][NextConc]_vars

\* C11 (as stated): under every interleaving of two requests, a request that
\* has returned emitted the events, and ends with the call log, that it has
\* when it is served alone.
C11_Independent ==
    \A r \in DOMAIN peers :
        peers[r].pc = "returned" =>
            /\ peers[r].events = Alone(r).events
            /\ peers[r].log = Alone(r).log

-----------------------------------------------------------------------------
(* The name repair on its own: _sanitize_function_name applied to every    *)
(* name of at most MaxPieces pieces.  The pieces are a clean name and the  *)
(* parts from which the artifact tokens are put together.                  *)

NamePieces == {"get_stats", "<|", "|>", "chan", "nel", "comm", "entary"}

InitNames ==
    /\ variant = "primary"
    /\ pc = "name"
    /\ request = Request(<<>>)
    /\ messages = <<>>
    /\ iteration = 0
    /\ events = <<>>
    /\ errlog = <<>>
    /\ functions_called = <<>>
    /\ llm_calls = <<>>
    /\ exec_calls = <<>>
    /\ last_call \in {[NoCall EXCEPT !.name = n] : n \in SeqsUpTo(NamePieces, MaxPieces)}
    /\ user_input = <<>>
    /\ verdict = NoVerdict
    /\ querylog = <<>>
    /\ response = NoResponse
    /\ tools_dict = build_registry(TRUE)
    /\ peers = <<>>

Sanitize ==
    /\ pc = "name"
    /\ last_call' = [last_call EXCEPT !.clean_name = _sanitize_function_name(last_call.name)]
    /\ pc' = "named"
    /\ UNCHANGED <<variant, tools_dict, peers, request, messages, iteration, events, errlog,
                   functions_called, llm_calls, exec_calls, user_input, verdict, querylog,
                   response>>

NextNames == Sanitize

SpecNames == InitNames /\ [][NextNames]_vars

\* an artifact token occurs in the name
HasArtifact(name) ==
    \E k \in 1..Len(bad_tokens) : \E i \in 1..Len(name) : OccursAt(name, bad_tokens[k], i)

\* C12 (as stated): repairing a repaired name changes nothing; a name without
\* artifact token is returned as it is; get_stats<|channel|>commentary is
\* repaired to get_stats.
C12_RepairIdempotent ==
    /\ _sanitize_function_name(<<"get_stats", "<|", "chan", "nel", "|>", "comm", "entary">>)
         = <<"get_stats">>
    /\ pc = "named" =>
         /\ _sanitize_function_name(last_call.clean_name) = last_call.clean_name
         /\ ~HasArtifact(last_call.name) => last_call.clean_name = last_call.name

-----------------------------------------------------------------------------
(* Properties of the argument filter (Spec).                               *)

\* C13: when the arguments of a tool call parse to a mapping, the mapping the
\* executor is invoked with is that mapping restricted to its keys that are
\* neither empty nor made of whitespace only, each kept key with its value.
C13_BlankKeysDropped ==
    (variant = "primary" /\ last_call.arguments.json = "dict" /\ last_call.execs # <<>>) =>
        LET m == last_call.arguments.map
            kw == last_call.execs[1].kwargs
            kept == {k \in DOMAIN m : k # "" /\ k # " "}
        IN  /\ DOMAIN kw = kept
            /\ \A k \in kept : kw[k] = m[k]

\* C13 witness: the executor was invoked with limit_rows alone for arguments
\* that also held a whitespace key
C13_Witness ==
    /\ variant = "primary"
    /\ last_call.arguments = SpaceDict
    /\ last_call.execs # <<>>
    /\ last_call.execs[1].kwargs = [k \in {"limit_rows"} |-> "5"]

-----------------------------------------------------------------------------
(* The history truncation on its own: the head of call_and_run_tools       *)
(* applied to every list of at most MaxHistory messages, each a system, a  *)
(* user or an assistant message; request.input keeps the list as given.    *)

HistoryMessages == {SystemMsg, UserMsg(ValidText), create_text_output_item(ANSWER)}

InitHistory ==
    /\ variant = "primary"
    /\ pc = "history"
    /\ request \in {Request(h) : h \in SeqsUpTo(HistoryMessages, MaxHistory)}
    /\ messages = request.input
    /\ iteration = 0
    /\ events = <<>>
    /\ errlog = <<>>
    /\ functions_called = <<>>
    /\ llm_calls = <<>>
    /\ exec_calls = <<>>
    /\ last_call = NoCall
    /\ user_input = <<>>
    /\ verdict = NoVerdict
    /\ querylog = <<>>
    /\ response = NoResponse
    /\ tools_dict = build_registry(TRUE)
    /\ peers = <<>>

TruncateHistory ==
    /\ pc = "history"
    /\ messages' = Truncate(messages)
    /\ pc' = "truncated"
    /\ UNCHANGED <<variant, tools_dict, peers, request, iteration, events, errlog,
                   functions_called, llm_calls, exec_calls, last_call, user_input, verdict,
                   querylog, response>>

NextHistory == TruncateHistory

SpecHistory == InitHistory /\ [][NextHistory]_vars

\* C14: a list of more than 7 messages becomes its first message, if that is a
\* system message, followed by its last 6 messages in their order: at most 7
\* messages, a leading system message among them; a list of at most 7
\* messages stays as it is.
C14_HistoryTruncation ==
    pc = "truncated" =>
        LET given == request.input
            n == Len(given)
        IN  /\ n <= 7 => messages = given
            /\ n > 7 =>
                 /\ messages = (IF given[1].role = "system" THEN <<given[1]>> ELSE <<>>)
                               \o [i \in 1..6 |-> given[n - 6 + i]]
                 /\ Len(messages) <= 7
                 /\ given[1].role = "system" => messages[1] = given[1]

\* C14 witness: a list of 8 messages with a leading system message was cut to 7
C14_Witness ==
    /\ pc = "truncated"
    /\ Len(request.input) = 8
    /\ request.input[1] = SystemMsg
    /\ Len(messages) = 7
    /\ messages[1] = SystemMsg
    /\ messages # request.input

-----------------------------------------------------------------------------
(* The result formatter on its own: one tool call of the primary variant   *)
(* (the model has asked for the statistics tool) handled for every result  *)
(* the executor may return: a list of at most MaxRows uniform records, a   *)
(* list of plain items, a mapping, a scalar, None, or a failure.           *)

FormatRows == {Row(cells) : cells \in [1..Len(Fields) -> Cells]}

FormatValues ==
    {ListValue(rows) : rows \in SeqsUpTo(FormatRows, MaxRows)}
    \cup {DictValue(row) : row \in FormatRows \cup {<<>>}}
    \cup {ItemsValue(<<"v5", "v81">>), StrValue(<<"42">>), NoValue}

FormatOutcomes == {[kind |-> "value", value |-> v] : v \in FormatValues}

FormatFailures == {[kind |-> "error", value |-> NoValue], [kind |-> "throws", value |-> NoValue]}

InitFormat ==
    LET asked == create_function_call_item(1, StatsTool, RowsDict)
    IN  /\ variant = "primary"
        /\ pc = "loop"
        /\ request = Request(<<UserMsg(ValidText)>>)
        /\ messages = <<SystemMsg, UserMsg(ValidText), asked>>
        /\ iteration = 1
        /\ events = <<DoneEvent(asked)>>
        /\ errlog = <<>>
        /\ functions_called = <<>>
        /\ llm_calls = <<LlmCall("tool", 1)>>
        /\ exec_calls = <<>>
        /\ last_call = NoCall
        /\ user_input = <<>>
        /\ verdict = NoVerdict
        /\ querylog = <<>>
        /\ response = NoResponse
        /\ tools_dict = build_registry(TRUE)
        /\ peers = <<>>

\* the execution returns a value: no log call is made, no sink answer is drawn
FormatResult == iteration = 1 /\ HandleToolCall(FormatOutcomes, {TRUE})

\* the execution fails: the failure is logged, the sink delivers or raises
FormatFailure == iteration = 1 /\ HandleToolCall(FormatFailures, BOOLEAN)

NextFormat == FormatResult \/ FormatFailure

SpecFormat == InitFormat /\ [][NextFormat]_vars

\* the lines of a text: its parts between line breaks
RECURSIVE Lines(_)
Lines(text) ==
    IF \A i \in 1..Len(text) : text[i] # "NL" THEN <<text>>
    ELSE LET i == CHOOSE k \in 1..Len(text) :
                      text[k] = "NL" /\ \A j \in 1..(k - 1) : text[j] # "NL"
         IN  <<SubSeq(text, 1, i - 1)>> \o Lines(SubSeq(text, i + 1, Len(text)))

\* the executor returned a list of records; c is the observed invocation
ReturnedList(c) == c.out = "return" /\ c.remote = "value" /\ c.result.t = "list"

\* C15: a list of N > 0 uniform records is formatted as a header row with the
\* humanized field names, a separator row, N data rows in the order of the
\* records, every cell the record's text cut to at most 80 characters, and a
\* footer with 'Total: N results' and the recommendations prompt; an empty
\* list is formatted as 'No results found.'.
C15_TableShape ==
    (variant = "primary" /\ last_call.execs # <<>> /\ ReturnedList(last_call.execs[1])) =>
        LET c == last_call.execs[1]
            data == c.result.rows
            N == Len(data)
            L == Lines(c.formatted)
        IN  /\ N = 0 => c.formatted = <<"No results found.">>
            /\ N > 0 =>
                 /\ Len(L) = N + 7
                 /\ L[1] = <<"| ", "Patient Name", " | ", "Gap Type", " |">>
                 /\ L[2] = <<"|", "---", "|", "---", "|">>
                 /\ \A i \in 1..N :
                      /\ Len(L[2 + i]) = 5
                      /\ L[2 + i][1] = "| " /\ L[2 + i][3] = " | " /\ L[2 + i][5] = " |"
                      /\ \A j \in 1..2 :
                           LET cell == L[2 + i][2 * j]
                               given == data[i][j][2]
                           IN  /\ CellLen(cell) <= 80
                               /\ CellLen(given) <= 80 => cell = given
                               /\ CellLen(given) > 80 => cell = "v81[:80]"
                 /\ L[N + 3] = <<>>
                 /\ L[N + 4] = <<"**Total: ", ToString(N), " results**">>
                 /\ L[N + 5] = <<>>
                 /\ L[N + 6] = <<"### Next Best Actions:">>
                 /\ L[N + 7] = <<"Please provide 3-5 specific action items based on this data.">>

\* C15 witness: two records, one with a text of 81 characters, were formatted
C15_Witness ==
    /\ variant = "primary"
    /\ last_call.execs # <<>>
    /\ ReturnedList(last_call.execs[1])
    /\ last_call.execs[1].result.rows = <<Row(<<"v81", "v5">>), Row(<<"v80", "">>)>>
    /\ Len(Lines(last_call.execs[1].formatted)) = 9

\* the text of the message the executor itself returns for a failed execution
ExecutorError(c) ==
    IF c.remote = "error" THEN <<"Error executing ">> \o c.function \o <<": REMOTE_ERROR">>
    ELSE <<"Error: ", "RemoteException">>

\* c's result is a list or a mapping with at least one element
NonEmptyCollection(c) ==
    \/ c.result.t \in {"list", "items"} /\ Len(c.result.rows) > 0
    \/ c.result.t = "dict" /\ Len(c.result.rows[1]) > 0

\* C16 as stated: every successful result, empty or not, list, mapping or
\* scalar, reaches the loop as its formatted text followed by the
\* recommendations instruction, and every failed execution reaches it as the
\* executor's error message without the instruction.
C16_InstructionOnEverySuccess ==
    (variant = "primary" /\ last_call.execs # <<>>) =>
        LET c == last_call.execs[1]
        IN  /\ c.remote = "value" => last_call.output = c.formatted \o INSTRUCTION
            /\ c.remote # "value" => last_call.output = ExecutorError(c)

\* C16 amended: the instruction follows the formatted text exactly when the
\* result is a non-empty list or a non-empty mapping; a scalar, None, an empty
\* list ('No results found.') and an empty mapping reach the loop as their
\* formatted text alone; a failed execution never carries the instruction, and
\* whenever the executor returns an error message (the service's, or the one
\* of the failure met while reporting it) that message is the text, as it is.
C16_ResultShaping ==
    (variant = "primary" /\ last_call.execs # <<>>) =>
        LET c == last_call.execs[1]
        IN  /\ c.remote = "value" =>
                 /\ ~last_call.raised
                 /\ NonEmptyCollection(c) => last_call.output = c.formatted \o INSTRUCTION
                 /\ ~NonEmptyCollection(c) =>
                      /\ last_call.output = c.formatted
                      /\ ~EndsWith(last_call.output, INSTRUCTION)
                 /\ c.result.t = "str" => c.formatted = c.result.text
                 /\ c.result.t = "none" => c.formatted = <<"None">>
                 /\ (c.result.t = "list" /\ c.result.rows = <<>>) =>
                      c.formatted = <<"No results found.">>
                 /\ (c.result.t = "dict" /\ c.result.rows[1] = <<>>) => c.formatted = <<>>
            /\ c.remote # "value" =>
                 /\ ~EndsWith(last_call.output, INSTRUCTION)
                 /\ c.out = "return" =>
                      /\ last_call.output = c.result.text
                      /\ last_call.output \in {ExecutorError(c), <<"Error: ", "SinkError">>}

\* C16 witness: a non-empty mapping was returned and its text carries the
\* instruction
C16_Witness ==
    /\ variant = "primary"
    /\ last_call.execs # <<>>
    /\ last_call.execs[1].remote = "value"
    /\ last_call.execs[1].result.t = "dict"
    /\ Len(last_call.execs[1].result.rows[1]) = 2
    /\ EndsWith(last_call.output, INSTRUCTION)
    /\ Len(last_call.output) > Len(INSTRUCTION)

-----------------------------------------------------------------------------
(* A whole request of the primary variant.                                 *)

Apologies == {LLM_APOLOGY, MAX_ITER_APOLOGY, PREDICT_APOLOGY}

\* the request ran as: a model turn asking for one registered tool, the tool
\* returning N > 0 records, a model turn with the answer, predict returning
OneCallThenAnswer ==
    /\ variant = "primary"
    /\ pc = "returned"
    /\ Len(llm_calls) = 2
    /\ llm_calls[1].kind = "tool"
    /\ llm_calls[2].kind = "text"
    /\ last_call.path = "executed"
    /\ last_call.clean_name \in tools_dict
    /\ Len(last_call.execs) = 1
    /\ ReturnedList(last_call.execs[1])
    /\ Len(last_call.execs[1].result.rows) > 0

DonePositions(evs) == {i \in 1..Len(evs) : evs[i].type = "response.output_item.done"}

\* the position in evs of the k-th event announcing a finished item
DonePosition(evs, k) ==
    CHOOSE i \in DonePositions(evs) : Cardinality({j \in DonePositions(evs) : j <= i}) = k

\* C18: predict of the primary variant returns as output exactly the items of
\* the loop's 'done' events, all of them and in the order of emission, no item
\* for a text-delta event, and returns the request's custom_inputs unchanged
\* as custom_outputs.
C18_PredictCollectsDone ==
    (variant = "primary" /\ pc = "returned") =>
        /\ response.returned
        /\ Len(response.output) = Cardinality(DonePositions(events))
        /\ \A k \in 1..Len(response.output) :
             /\ response.output[k] = events[DonePosition(events, k)].item
             /\ response.output[k].type # "delta"
        /\ response.custom_outputs = request.custom_inputs

\* C18 witness: predict returned after a run that emitted a text delta between
\* finished items
C18_Witness ==
    /\ variant = "primary"
    /\ pc = "returned"
    /\ Cardinality(DonePositions(events)) >= 3
    /\ \E i \in 1..Len(events) :
         /\ events[i].type = "response.output_text.delta"
         /\ \E j \in DonePositions(events) : j < i
    /\ Len(response.output) < Len(events)

-----------------------------------------------------------------------------
(* Asking again: one request of the primary variant in which the model may *)
(* ask for a tool up to MaxAsks times, each execution succeeding or        *)
(* failing.                                                                 *)

AskKinds == {"tool", "text", "text_tool", "empty"}

InitRetry ==
    /\ variant = "primary"
    /\ pc = "start"
    /\ request = Request(<<UserMsg(ValidText)>>)
    /\ messages = <<>>
    /\ iteration = 0
    /\ events = <<>>
    /\ errlog = <<>>
    /\ functions_called = <<>>
    /\ llm_calls = <<>>
    /\ exec_calls = <<>>
    /\ last_call = NoCall
    /\ user_input = <<>>
    /\ verdict = NoVerdict
    /\ querylog = <<>>
    /\ response = NoResponse
    /\ tools_dict = build_registry(TRUE)
    /\ peers = <<>>

AskTurn == ModelTurn(AskKinds, MaxAsks)

NextRetry ==
    \/ PredictPrimary
    \/ IterDone
    \/ IterTool
    \/ AskTurn
    \/ Exhaust
    \/ Return

SpecRetry == InitRetry /\ [][NextRetry]_vars

\* the model's tool-call requests issued in an iteration before iteration at
AskedBefore(at) == SelectSeq(llm_calls, LAMBDA c : HasTool(c.kind) /\ c.at < at)

\* C19: no automatic retry. Handling one tool-call request invokes the
\* executor at most once, whether the execution succeeds or fails; no two
\* model calls are made in one iteration; the executor has never run more
\* often than the model has asked for a tool in earlier iterations, and every
\* model call and every execution has used up an iteration of its own.
C19_NoAutomaticRetry ==
    /\ Len(last_call.execs) <= 1
    /\ Len(last_call.called) <= 1
    /\ \A i \in 1..Len(llm_calls), j \in 1..Len(llm_calls) :
         i < j => llm_calls[i].at < llm_calls[j].at
    /\ Len(exec_calls) <= Len(AskedBefore(last_call.at))
    /\ Len(llm_calls) + Len(exec_calls) <= iteration

\* C19 witness: an execution failed, it ran once, the model asked again in
\* the next iteration and the tool was executed a second time, after that
C19_Witness ==
    /\ Len(exec_calls) = 2
    /\ exec_calls[1].remote # "value"
    /\ Len(last_call.execs) = 1
    /\ Len(AskedBefore(last_call.at)) = 2
    /\ iteration >= 4

-----------------------------------------------------------------------------
(* Process start with the catalog unreachable, then one request.           *)

\* TOOL_INFOS = [] before the toolkit is asked; no agent yet
InitOffline ==
    /\ variant = "primary"
    /\ pc = "boot"
    /\ request \in Requests
    /\ messages = <<>>
    /\ iteration = 0
    /\ events = <<>>
    /\ errlog = <<>>
    /\ functions_called = <<>>
    /\ llm_calls = <<>>
    /\ exec_calls = <<>>
    /\ last_call = NoCall
    /\ user_input = <<>>
    /\ verdict = NoVerdict
    /\ querylog = <<>>
    /\ response = NoResponse
    /\ tools_dict = {}
    /\ peers = <<>>

\* module load: UCFunctionToolkit raises, the except branch prints, and
\* AGENT = ToolCallingAgent(..., tools=TOOL_INFOS) is constructed
StartOffline ==
    /\ pc = "boot"
    /\ tools_dict' = build_registry(FALSE)
    /\ functions_called' = <<>>
    /\ pc' = "start"
    /\ UNCHANGED <<variant, peers, request, messages, iteration, events, errlog, llm_calls,
                   exec_calls, last_call, user_input, verdict, querylog, response>>

NextOffline ==
    \/ StartOffline
    \/ PredictPrimary
    \/ IterDone
    \/ IterTool
    \/ IterLLM
    \/ Exhaust
    \/ Return

SpecOffline == InitOffline /\ [][NextOffline]_vars

\* every pass of the loop that stays in the loop uses up one iteration
LoopAdvances == (pc = "loop" /\ pc' = "loop") => iteration' = iteration + 1

\* the arguments of the last tool-call request are JSON text
ArgumentsParse == last_call.arguments.json # "invalid"

\* C20 as stated: after a start with the catalog unreachable the registry is
\* empty and every tool-call request is answered with the function-not-found
\* result.
C20_EveryCallNotFound ==
    /\ pc # "boot" => tools_dict = {}
    /\ last_call.path # "none" =>
         (~last_call.raised /\ last_call.path = "not_found" /\ last_call.output = NOT_FOUND)

OfflineAnswers ==
    /\ pc # "boot" => tools_dict = {}
    /\ exec_calls = <<>>
    /\ functions_called = <<>>
    /\ iteration <= MaxIterPrimary
    /\ (last_call.path # "none" /\ ArgumentsParse) =>
         /\ ~last_call.raised
         /\ last_call.path = "not_found"
         /\ last_call.output = NOT_FOUND
         /\ last_call.logs = <<>>
    /\ (last_call.path # "none" /\ ~ArgumentsParse) =>
         /\ last_call.path = "exception"
         /\ ~last_call.raised => last_call.output[1] = "Error executing tool: "

\* C20 amended: a start with the catalog unreachable does not fail, the
\* registry is empty and the agent serves requests; with zero tools no tool is
\* ever executed, every tool-call request whose arguments parse is answered
\* with the function-not-found result, a request whose arguments do not parse
\* takes the except branch (the tool-execution error text, or the exception of
\* a failed error report), and the loop ends: every pass uses up an iteration
\* and the iterations never exceed the ceiling.
C20_OfflineStart == []OfflineAnswers /\ [][LoopAdvances]_vars

\* C20 witness: started without tools, the agent answered a tool-call request
\* with the function-not-found result and the request has returned
C20_Witness ==
    /\ tools_dict = {}
    /\ pc = "returned"
    /\ last_call.path = "not_found"
    /\ last_call.name = StatsTool
    /\ last_call.output = NOT_FOUND
    /\ response.returned

-----------------------------------------------------------------------------
(* The entry of a request: predict up to the loop, for user texts with      *)
(* control characters and surrounding whitespace.                           *)

EntryTexts == SeqsUpTo({" ", "x", "BEL", "NL"}, MaxEntryTokens)

InitEntry ==
    /\ variant \in {"primary", "earlier"}
    /\ pc = "start"
    /\ request \in {Request(<<UserMsg(t)>>) : t \in EntryTexts}
    /\ messages = <<>>
    /\ iteration = 0
    /\ events = <<>>
    /\ errlog = <<>>
    /\ functions_called = <<>>
    /\ llm_calls = <<>>
    /\ exec_calls = <<>>
    /\ last_call = NoCall
    /\ user_input = <<>>
    /\ verdict = NoVerdict
    /\ querylog = <<>>
    /\ response = NoResponse
    /\ tools_dict = build_registry(TRUE)
    /\ peers = <<>>

NextEntry == PredictPrimary \/ PredictEarlier

SpecEntry == InitEntry /\ [][NextEntry]_vars

\* a text without control characters and without surrounding whitespace
IsClean(text) ==
    /\ \A i \in 1..Len(text) : text[i] \notin {"BEL", "NL"}
    /\ text # <<>> => (text[1] # " " /\ text[Len(text)] # " ")

\* C21: the user text in the message list given to the model is the sanitized
\* text, without control characters and without surrounding whitespace, for
\* every request that passes the guard (in the primary variant, which has no
\* guard, for every request).
C21_SanitizedTextEntersLoop ==
    pc = "loop" =>
        \A i \in 1..Len(messages) :
            messages[i].role = "user" =>
                /\ IsClean(messages[i].text)
                /\ messages[i].text = sanitize_input(request.input[Len(request.input)].text)

-----------------------------------------------------------------------------
(* PHI masking (the earlier variant's PHIMasker).  A payload is a tree: a   *)
(* string (its characters), a mapping (its key-value pairs in order), a     *)
(* list (its items), or a string that holds the JSON encoding of a tree.    *)

JStr(chars) == [k |-> "str", v |-> chars]
JDict(pairs) == [k |-> "dict", v |-> pairs]
JList(items) == [k |-> "list", v |-> items]
\* json.dumps(value): a string; json.loads of it gives value back
JEncoded(value) == [k |-> "json", v |-> <<value>>]

\* name.strip().split(): the words of a text, split at runs of blanks
RECURSIVE Split(_, _)
Split(chars, word) ==
    IF chars = <<>> THEN (IF word = <<>> THEN <<>> ELSE <<word>>)
    ELSE IF Head(chars) = " "
    THEN (IF word = <<>> THEN <<>> ELSE <<word>>) \o Split(Tail(chars), <<>>)
    ELSE Split(Tail(chars), Append(word, Head(chars)))

REDACTED == <<"[", "R", "E", "D", "A", "C", "T", "E", "D", "]">>

\* mutant: only the first initial is kept
mask_name_first_only(name) ==
    LET parts == Split(name, <<>>)
    IN  IF parts = <<>> THEN REDACTED ELSE <<parts[1][1], "*", "*", "*">>

\* PHIMasker.mask_name
mask_name(name) ==
    LET parts == Split(name, <<>>)
    IN  IF parts = <<>> THEN REDACTED
        ELSE IF Len(parts) = 1 THEN <<parts[1][1], "*", "*", "*">>
        ELSE <<parts[1][1], "*", "*", "*", " ", parts[Len(parts)][1], "*", "*", "*">>

\* the last n characters of a text: text[-n:]
LastChars(chars, n) ==
    IF Len(chars) <= n THEN chars ELSE SubSeq(chars, Len(chars) - n + 1, Len(chars))

\* PHIMasker.mask_mrn
mask_mrn(mrn) ==
    IF mrn = <<>> \/ Len(mrn) < 4
    THEN <<"*", "*", "*", "*">> \o LastChars(mrn, 2)
    ELSE <<"*", "*", "*", "*">> \o LastChars(mrn, 4)

\* PHIMasker.should_mask_column, for the column names of the payloads: the kind
\* of masking of a column, "none" for (False, None)
should_mask_column(column_name) ==
    CASE column_name \in {"patient_name", "name"} -> "name"
      [] column_name \in {"patient_mrn", "MRN"} -> "mrn"
      [] OTHER -> "none"

\* `value` as a condition: an empty string, list or mapping is false
Truthy(value) == value.v # <<>>

\* str(value)
TextOf(value) == IF value.k = "str" THEN value.v ELSE <<"{", "}">>

\* the masked[key] of one key-value pair in mask_result's mapping branch
mask_field(key, value) ==
    IF should_mask_column(key) # "none" /\ Truthy(value)
    THEN IF should_mask_column(key) = "name" THEN JStr(mask_name(TextOf(value)))
         ELSE JStr(mask_mrn(TextOf(value)))
    ELSE value

\* PHIMasker.mask_result with PHI_MASKING_ENABLED
RECURSIVE PHIMasker_mask_result(_)
PHIMasker_mask_result(result) ==
    CASE result.k = "json" -> JEncoded(PHIMasker_mask_result(result.v[1]))
      [] result.k = "str" -> result
      [] result.k = "list" ->
           JList([i \in 1..Len(result.v) |-> PHIMasker_mask_result(result.v[i])])
      [] result.k = "dict" ->
           JDict([i \in 1..Len(result.v) |->
                    <<result.v[i][1], mask_field(result.v[i][1], result.v[i][2])>>])

Chars9 == <<"1", "2", "3", "4", "5", "6", "7", "8", "9">>

MaskNames == {<<"J", "o", " ", "S", "m">>, <<" ", "A", "l", " ", " ", "B", " ", "C", "y">>,
              <<"A", "l">>, <<>>}

MaskMrns == {Chars9, <<"0">> \o Chars9, <<"1", "2">>}

\* the records a tool returns: a patient's name and identifier and a gap type
MaskRecords ==
    {JDict(<<<<"patient_name", JStr(n)>>, <<"patient_mrn", JStr(m)>>,
             <<"gap_type", JStr(<<"f", "l", "u">>)>>>>) : n \in MaskNames, m \in MaskMrns}

NestedPayloads ==
    {JDict(<<<<"gap_type", JStr(<<"f", "l", "u">>)>>, <<"details", r>>>>) : r \in MaskRecords}
    \cup {JDict(<<<<"total", JStr(<<"1">>)>>, <<"patients", JList(<<r>>)>>>>) : r \in MaskRecords}
    \cup {JList(<<JList(<<r>>)>>) : r \in MaskRecords}

\* one invocation of exec_fn (earlier variant): the service's value and what
\* mask_result makes of it
Masking(value) ==
    [function |-> udf_name_of(StatsTool), kwargs |-> <<>>, remote |-> "value",
     out |-> "return", result |-> value, masked |-> PHIMasker_mask_result(value)]

InitMask ==
    /\ variant = "earlier"
    /\ pc = "mask"
    /\ request = Request(<<>>)
    /\ messages = <<>>
    /\ iteration = 0
    /\ events = <<>>
    /\ errlog = <<>>
    /\ functions_called = <<>>
    /\ llm_calls = <<>>
    /\ exec_calls = <<>>
    /\ last_call = NoCall
    /\ user_input = <<>>
    /\ verdict = NoVerdict
    /\ querylog = <<>>
    /\ response = NoResponse
    /\ tools_dict = build_registry(TRUE)
    /\ peers = <<>>

\* the same records returned in each shape: one by one, as a list, as the
\* JSON text of the list, as the JSON text of the first record, and then an
\* error text
MaskShapes ==
    /\ pc = "mask"
    /\ \E rows \in SeqsUpTo(MaskRecords, MaxRows) \ {<<>>} :
         exec_calls' = [i \in 1..Len(rows) |-> Masking(rows[i])]
                       \o <<Masking(JList(rows)), Masking(JEncoded(JList(rows))),
                            Masking(JEncoded(rows[1])),
                            Masking(JStr(<<"E", "r", "r", "o", "r", ":", " ", "x">>))>>
    /\ pc' = "masked"
    /\ UNCHANGED <<variant, tools_dict, peers, request, messages, iteration, events, errlog,
                   functions_called, llm_calls, last_call, user_input, verdict, querylog,
                   response>>

\* a payload with a mapping or a list below its top level
MaskNested ==
    /\ pc = "mask"
    /\ \E payload \in NestedPayloads : exec_calls' = <<Masking(payload)>>
    /\ pc' = "nested"
    /\ UNCHANGED <<variant, tools_dict, peers, request, messages, iteration, events, errlog,
                   functions_called, llm_calls, last_call, user_input, verdict, querylog,
                   response>>

NextMask == MaskShapes \/ MaskNested

SpecMask == InitMask /\ [][NextMask]_vars

\* the value of the field key of a record
Field(record, key) ==
    LET hits == SelectSeq(record.v, LAMBDA pair : pair[1] = key) IN hits[1][2]

\* the number of words of a text: maximal runs of characters other than blanks
Words(chars) ==
    Cardinality({i \in 1..Len(chars) : chars[i] # " " /\ (i = 1 \/ chars[i - 1] = " ")})

\* the initials form of a name of two or more words
InitialsForm(chars) ==
    LET starts == {i \in 1..Len(chars) : chars[i] # " " /\ (i = 1 \/ chars[i - 1] = " ")}
        first == CHOOSE i \in starts : \A j \in starts : i <= j
        last == CHOOSE i \in starts : \A j \in starts : j <= i
    IN  <<chars[first], "*", "*", "*", " ", chars[last], "*", "*", "*">>

IsMaskedText(value) ==
    value.k = "str" /\ (value.v = REDACTED \/ \E i \in 1..Len(value.v) : value.v[i] = "*")

\* every non-empty field with a PHI name is masked, at every depth of the payload
RECURSIVE FullyMasked(_)
FullyMasked(value) ==
    CASE value.k = "str" -> TRUE
      [] value.k = "json" -> FullyMasked(value.v[1])
      [] value.k = "list" -> \A i \in 1..Len(value.v) : FullyMasked(value.v[i])
      [] value.k = "dict" ->
           \A i \in 1..Len(value.v) :
               /\ (should_mask_column(value.v[i][1]) # "none" /\ value.v[i][2].v # <<>>)
                     => IsMaskedText(value.v[i][2])
               /\ FullyMasked(value.v[i][2])

\* C23: with masking enabled a tool result is never partially masked: in the
\* payload handed back by exec_fn every non-empty field with a PHI name is
\* masked at every nesting depth, in a mapping nested in a record and in the
\* records of a list nested in a mapping too.
C23_NeverPartiallyMasked ==
    \A i \in 1..Len(exec_calls) : FullyMasked(exec_calls[i].masked)

-----------------------------------------------------------------------------
(* What one iteration of the loop appends.                                 *)

\* a step that is one iteration of the loop and leaves the loop running
IterationStep == pc = "loop" /\ pc' = "loop" /\ iteration' = iteration + 1

\* the messages an iteration appended (the list only grows at its end)
Appended == SubSeq(messages', Len(messages) + 1, Len(messages'))

IsToolResult(m) == m.type = "function_call_output"

\* C24 (as the code has it): an iteration that leaves the loop running only
\* appends at the end of the message list. A tool iteration appends exactly
\* one tool-result message and makes no model call; a model turn appends
\* what the stream aggregated: nothing, one assistant message, one tool-call
\* request, or an assistant message followed by a tool-call request. The
\* loop never handles two tool-call requests without a model turn between.
C24_IterationAppends ==
    [][IterationStep =>
         /\ Len(messages') >= Len(messages)
         /\ SubSeq(messages', 1, Len(messages)) = messages
         /\ IF IsFunctionCall(Tail_(messages))
            THEN /\ Len(Appended) = 1
                 /\ IsToolResult(Appended[1])
                 /\ llm_calls' = llm_calls
                 /\ last_call.at > 0 =>
                      \E i \in 1..Len(llm_calls) : llm_calls[i].at > last_call.at
            ELSE /\ Len(llm_calls') = Len(llm_calls) + 1
                 /\ last_call' = last_call
                 /\ Len(Appended) <= 2
                 /\ \A i \in 1..Len(Appended) :
                      \/ Appended[i].role = "assistant" /\ i = 1
                      \/ IsFunctionCall(Appended[i]) /\ i = Len(Appended)]_vars

\* two tool-call requests were handled in one request, the second one asked
\* for by a model turn that also delivered text
C24_Witness ==
    /\ pc = "loop"
    /\ Len(SelectSeq(messages, IsToolResult)) = 2
    /\ llm_calls[Len(llm_calls)].kind = "text_tool"
    /\ last_call.at = iteration

\* C24 (as stated): every iteration that does not terminate the loop appends
\* exactly one new message.
C24_ExactlyOneMessage ==
    [][IterationStep => Len(messages') = Len(messages) + 1]_vars

\* C25: on every path of handle_tool_call (success, unresolved name, executor
\* failure, exception while parsing or executing) exactly one tool-result
\* message is appended, it carries the call_id of the request, it is the new
\* tail of the message list, and exactly one 'done' event with that item is
\* returned.
C25_OneResultOnEveryPath ==
    [][last_call' # last_call =>
         /\ Len(messages') = Len(messages) + 1
         /\ SubSeq(messages', 1, Len(messages)) = messages
         /\ IsToolResult(Tail_(messages'))
         /\ Tail_(messages').call_id = Tail_(messages).call_id
         /\ events' = Append(events, DoneEvent(Tail_(messages')))]_vars

\* the exhaustion apology is among the emitted events
ApologyEmitted ==
    \E i \in 1..Len(events) : events[i].item.text = MAX_ITER_APOLOGY

\* C26: when an iteration finds that the last message has role 'assistant',
\* the loop terminates in Done in that iteration: no message is appended, no
\* event is emitted, no model call and no tool call is made, nothing is
\* reported, and no exhaustion apology is emitted.
C26_DoneChangesNothing ==
    [][(pc = "loop" /\ InRange(iteration, variant) /\ Tail_(messages).role = "assistant") =>
         /\ pc' = "done"
         /\ UNCHANGED <<messages, events, llm_calls, exec_calls, functions_called,
                        errlog, last_call, querylog, response>>
         /\ ~ApologyEmitted']_vars

\* the loop returned on the model's answer after a handled tool call
C26_Witness ==
    /\ pc = "done"
    /\ Tail_(messages).role = "assistant"
    /\ last_call.at > 0
    /\ llm_calls # <<>>
    /\ ~ApologyEmitted

-----------------------------------------------------------------------------
(* One agent serving requests one after the other.                         *)

\* what is kept of a request that was served
Served(called, execs) == [called |-> called, execs |-> execs]

\* AGENT is created once and predict is called on it for every request: the
\* locals of predict_stream and of the loop start anew, the fields of the
\* object (_functions_called, _tools_dict) are what the last request left
ServeNext ==
    /\ pc = "returned"
    /\ Len(peers) < MaxServed - 1
    /\ peers' = Append(peers, Served(functions_called, exec_calls))
    /\ request' \in Requests
    /\ pc' = "start"
    /\ messages' = <<>>
    /\ iteration' = 0
    /\ events' = <<>>
    /\ errlog' = <<>>
    /\ llm_calls' = <<>>
    /\ exec_calls' = <<>>
    /\ last_call' = NoCall
    /\ user_input' = <<>>
    /\ verdict' = NoVerdict
    /\ querylog' = <<>>
    /\ response' = NoResponse
    /\ UNCHANGED <<variant, tools_dict, functions_called>>

NextSerial == Next \/ ServeNext

SpecSerial == Init /\ [][NextSerial]_vars

\* the tool names of the executor invocations of this request, in order
ExecutorsInvoked ==
    [i \in 1..Len(exec_calls) |->
        [j \in 1..Len(exec_calls[i].function) |->
            IF exec_calls[i].function[j] = "." THEN "__" ELSE exec_calls[i].function[j]]]

\* C27: the call log is per request: when a request ends it holds exactly
\* the names of the tools whose executor was invoked during that request, in
\* order, whether they succeeded or failed, and nothing from earlier requests
\* of the same agent.
C27_CallLogPerRequest ==
    pc = "returned" => functions_called = ExecutorsInvoked

\* the request handled last had an argument payload that is no JSON, or JSON
\* that is no mapping
BadPayloadHandled ==
    /\ last_call.at > 0
    /\ last_call.at = iteration
    /\ last_call.arguments.json \in {"invalid", "list", "null"}

\* C28: for a tool-call request whose argument payload is not valid JSON, or
\* is valid JSON but not a mapping, handle_tool_call does not raise and
\* invokes no executor: it reports a tool-call error to the sink, appends one
\* error tool-result message, and the loop continues with a model turn.
C28_BadPayloadReported ==
    BadPayloadHandled =>
        /\ ~last_call.raised
        /\ last_call.execs = <<>>
        /\ \E i \in 1..Len(last_call.logs) :
               last_call.logs[i].type = "tool_call_error" /\ last_call.logs[i].delivered
        /\ pc = "loop"
        /\ IsToolResult(Tail_(messages))
        /\ Tail_(messages).call_id = last_call.call_id
        /\ Tail_(messages).text = last_call.output
        /\ LoopBranch(Tail_(messages)) = "llm"

-----------------------------------------------------------------------------
(* Requests for the tools of the roster.                                   *)

\* a request whose history ends with a tool-call request naming the alias of
\* a roster function
InitRoster ==
    /\ variant = "primary"
    /\ pc = "start"
    /\ request \in {Request(<<UserMsg(ValidText),
                              create_function_call_item(1, Alias(function_name), arguments)>>) :
                      function_name \in UC_TOOL_NAMES, arguments \in {RowsDict, EmptyDict}}
    /\ messages = <<>>
    /\ iteration = 0
    /\ events = <<>>
    /\ errlog = <<>>
    /\ functions_called = <<>>
    /\ llm_calls = <<>>
    /\ exec_calls = <<>>
    /\ last_call = NoCall
    /\ user_input = <<>>
    /\ verdict = NoVerdict
    /\ querylog = <<>>
    /\ response = NoResponse
    /\ tools_dict = build_registry(TRUE)
    /\ peers = <<>>

\* the model answers the tool's result, or delivers nothing
RosterTurn == ModelTurn({"text", "empty"}, 0)

NextRoster ==
    \/ PredictPrimary
    \/ IterDone
    \/ IterTool
    \/ RosterTurn
    \/ Exhaust
    \/ Return

SpecRoster == InitRoster /\ [][NextRoster]_vars

\* C29: for each of the 19 roster functions, a tool-call request that names
\* its flattened alias ('.' replaced by '__') is left unchanged by the name
\* repair, resolves to that function's tool in the registry, and the executor
\* calls the function-execution service with the original namespaced
\* identifier.
C29_AliasResolves ==
    /\ Cardinality(UC_TOOL_NAMES) = 19
    /\ (last_call.at > 0 /\ last_call.name \in {Alias(f) : f \in UC_TOOL_NAMES}) =>
         /\ _sanitize_function_name(last_call.name) = last_call.name
         /\ last_call.clean_name = last_call.name
         /\ last_call.clean_name \in tools_dict
         /\ last_call.path \in {"executed", "exception"}
         /\ last_call.called = <<last_call.name>>
         /\ Len(last_call.execs) = 1
         /\ last_call.execs[1].function \in UC_TOOL_NAMES
         /\ Alias(last_call.execs[1].function) = last_call.name

\* the tool of get_patient_360 was asked for by its alias and the service was
\* called
C29_Witness ==
    /\ last_call.at > 0
    /\ last_call.name = <<"dev_kiddo", "__", "silver", "__", "get_patient_360">>
    /\ exec_calls # <<>>
    /\ exec_calls[1].function = <<"dev_kiddo", ".", "silver", ".", "get_patient_360">>
    /\ exec_calls[1].out = "return"

-----------------------------------------------------------------------------
(* Requests that use up the iterations of the loop.                        *)

InitBudget ==
    /\ variant \in {"primary", "earlier"}
    /\ pc = "start"
    /\ request = Request(<<UserMsg(ValidText)>>)
    /\ messages = <<>>
    /\ iteration = 0
    /\ events = <<>>
    /\ errlog = <<>>
    /\ functions_called = <<>>
    /\ llm_calls = <<>>
    /\ exec_calls = <<>>
    /\ last_call = NoCall
    /\ user_input = <<>>
    /\ verdict = NoVerdict
    /\ querylog = <<>>
    /\ response = NoResponse
    /\ tools_dict = build_registry(TRUE)
    /\ peers = <<>>

\* the model asks for a tool as often as the iterations allow, or answers
BudgetTurn == ModelTurn({"tool", "text", "empty"}, MaxIterEarlier)

\* the service answers every call with a value and the sink delivers
BudgetTool == HandleToolCall({o \in RemoteOutcomes : o.kind = "value"}, {TRUE})

NextBudget ==
    \/ PredictPrimary
    \/ PredictEarlier
    \/ IterDone
    \/ BudgetTool
    \/ BudgetTurn
    \/ Exhaust
    \/ Return

SpecBudget == InitBudget /\ [][NextBudget]_vars

\* C30: the exhaustion apology is never emitted in a request whose message
\* list ends with a final assistant message: whenever the last model turn
\* appended an assistant message, the emitted events hold no apology item.
C30_NoApologyAfterAnswer ==
    (messages # <<>> /\ Tail_(messages).role = "assistant") => ~ApologyEmitted

\* the tool-call request at position i has its tool-result later in the list
Answered(msgs, i) ==
    \E j \in (i + 1)..Len(msgs) :
        IsToolResult(msgs[j]) /\ msgs[j].call_id = msgs[i].call_id

\* C31: when the loop stops (Done or Exhausted) no tool-call request appended
\* during the request is left pending: every tool-call message in the list
\* is followed by a tool-result message with the same call_id.
C31_NoPendingToolCall ==
    pc \in {"done", "exhausted"} =>
        \A i \in 1..Len(messages) : IsFunctionCall(messages[i]) => Answered(messages, i)

\* C32: every request that enters the loop produces a non-empty response: for
\* every input message list, one whose last message already has role
\* 'assistant' included, the output list of predict holds at least one item.
C32_ResponseNotEmpty ==
    (pc = "returned" /\ messages # <<>>) => response.returned /\ response.output # <<>>

-----------------------------------------------------------------------------
(* Histories that hold tool calls with their results.                      *)

\* the messages of a history made of turns: "user", "answer", or "tool" (a
\* tool-call request followed at once by its result), the k-th turn's call
\* having the id k
RECURSIVE TurnMessages(_, _)
TurnMessages(turns, k) ==
    IF k > Len(turns) THEN <<>>
    ELSE (CASE turns[k] = "user" -> <<UserMsg(ValidText)>>
            [] turns[k] = "answer" -> <<create_text_output_item(ANSWER)>>
            [] turns[k] = "tool" ->
                 <<create_function_call_item(k, StatsTool, RowsDict),
                   create_function_call_output_item(k, ANSWER)>>)
         \o TurnMessages(turns, k + 1)

InitPairs ==
    /\ variant = "primary"
    /\ pc = "start"
    /\ request \in {Request(TurnMessages(turns, 1)) :
                      turns \in SeqsUpTo({"user", "answer", "tool"}, MaxTurns) \ {<<>>}}
    /\ messages = <<>>
    /\ iteration = 0
    /\ events = <<>>
    /\ errlog = <<>>
    /\ functions_called = <<>>
    /\ llm_calls = <<>>
    /\ exec_calls = <<>>
    /\ last_call = NoCall
    /\ user_input = <<>>
    /\ verdict = NoVerdict
    /\ querylog = <<>>
    /\ response = NoResponse
    /\ tools_dict = build_registry(TRUE)
    /\ peers = <<>>

NextPairs == PredictPrimary

SpecPairs == InitPairs /\ [][NextPairs]_vars

\* the tool-result at position j has its tool-call request earlier in the list
Requested(msgs, j) ==
    \E i \in 1..(j - 1) : IsFunctionCall(msgs[i]) /\ msgs[i].call_id = msgs[j].call_id

\* C34: history truncation keeps tool-call/tool-result pairs together: in the
\* truncated list every tool-result message is preceded by the tool-call
\* request with the same correlation id.
C34_PairsKeptTogether ==
    pc = "loop" =>
        \A j \in 1..Len(messages) : IsToolResult(messages[j]) => Requested(messages, j)

-----------------------------------------------------------------------------
(* The request as the caller holds it.                                     *)

\* a request given as a plain mapping ("dict") or as a ResponsesAgentRequest
\* ("object"); input is the caller's list as it was when predict was called
RequestAs(format, input) ==
    [input |-> input, custom_inputs |-> "CUSTOM", format |-> format]

InitAlias ==
    /\ variant = "primary"
    /\ pc = "start"
    /\ request \in {RequestAs(format, input) :
                      format \in {"dict", "object"},
                      input \in {<<UserMsg(ValidText)>>,
                                 <<UserMsg(ValidText), create_text_output_item(ANSWER)>>,
                                 TurnMessages(<<"user", "answer", "user", "tool", "user",
                                                "answer", "user">>, 1)}}
    /\ messages = <<>>
    /\ iteration = 0
    /\ events = <<>>
    /\ errlog = <<>>
    /\ functions_called = <<>>
    /\ llm_calls = <<>>
    /\ exec_calls = <<>>
    /\ last_call = NoCall
    /\ user_input = <<>>
    /\ verdict = NoVerdict
    /\ querylog = <<>>
    /\ response = NoResponse
    /\ tools_dict = build_registry(TRUE)
    /\ peers = <<>>

NextAlias ==
    \/ PredictPrimary
    \/ IterDone
    \/ IterTool
    \/ IterLLM
    \/ Exhaust
    \/ Return

SpecAlias == InitAlias /\ [][NextAlias]_vars

\* the caller's input list once predict_stream has started. For a mapping,
\* messages = request.get('input', []) is the caller's list itself: the
\* system prompt is inserted into it, and the loop appends to it unless the
\* truncation has bound the local name to a new list. For an object,
\* to_chat_completions_input builds a new list and the caller's is not touched.
CallerInput ==
    IF pc = "start" \/ request.format = "object" THEN request.input
    ELSE IF Len(request.input) + 1 > HistoryThreshold THEN <<SystemMsg>> \o request.input
    ELSE messages

\* C33: predict and predict_stream leave the caller's request unchanged: the
\* caller's input list has the same messages before and after the call, no
\* system prompt is inserted into it and no assistant or tool-result message
\* is appended to it.
C33_RequestUnchanged ==
    pc = "returned" => CallerInput = request.input

\* C35: the name returned by _sanitize_function_name contains none of the
\* known artifact substrings ('<|channel|>', '<|commentary|>', 'commentary',
\* 'channel', '<|', '|>'), for every input name.
C35_NoArtifactLeft ==
    pc = "named" => ~HasArtifact(last_call.clean_name)

\* C36: every input that is_safe_input accepts is still non-empty after
\* sanitize_input: no accepted input is reduced to the empty string by the
\* removal of control characters and of the surrounding whitespace.
C36_AcceptedStaysNonEmpty ==
    verdict[1] => sanitize_input(user_input) # <<>>

====
